---- MODULE Spec2Model ----
(***************************************************************************)
(* State-machine model of g2historyapi (server.js and its earlier          *)
(* revisions): the matches_upcoming sync endpoints, the matches listing,   *)
(* and the in-memory response cache with its clear endpoint.               *)
(*                                                                         *)
(* Conventions                                                             *)
(*  - A JavaScript text is a TLA+ string; NULL (the empty string) stands   *)
(*    for a text that is null or empty: every extraction in the code maps  *)
(*    the empty string to null (`x?.textContent.trim() || null`).          *)
(*  - A cache field that is null is Absent (<<>>); a field holding v is    *)
(*    <<v>>, so that an empty result array is distinct from null.          *)
(*  - The clock counts whole minutes since 1970-01-01T00:00Z.  Durations   *)
(*    of the code are written in milliseconds, and the age of a cache      *)
(*    entry is compared in milliseconds: Ms(t - timestamp).                *)
(*  - Every await of the code is a step boundary.  A step that only fails  *)
(*    (a rejected promise) is merged with the synchronous catch block that *)
(*    follows it, since the rejection changes no shared state.             *)
(***************************************************************************)
EXTENDS Integers, Sequences, FiniteSets, TLC

(***************************************************************************)
(* Bounds of the model.                                                    *)
(***************************************************************************)
\* clock advances in one behaviour
MaxTicks == 2
\* days that pass in one behaviour of the cached reads
MaxDays == 1

NULL == ""
Absent == <<>>
Some(v) == <<v>>

\* JavaScript truthiness of a text: null and "" are falsy.
TruthyText(s) == s # NULL

(***************************************************************************)
(* Time.  new Date(...) / Date.UTC / toISOString on the proleptic          *)
(* Gregorian calendar, in minutes.                                         *)
(***************************************************************************)
MsPerMinute == 60 * 1000
Ms(minutes) == minutes * MsPerMinute
MinutesPerDay == 24 * 60

\* Date.UTC(year, month - 1, day, hour, minute, 0) in minutes.  Linear in
\* day, hour and minute, so out-of-range fields roll over as in JavaScript.
DaysFromCivil(y, m, d) ==
    LET yy  == IF m <= 2 THEN y - 1 ELSE y
        era == yy \div 400
        yoe == yy - era * 400
        mp  == IF m > 2 THEN m - 3 ELSE m + 9
        doy == (153 * mp + 2) \div 5 + d - 1
        doe == yoe * 365 + yoe \div 4 - yoe \div 100 + doy
    IN  era * 146097 + doe - 719468

DateUTC(year, month, day, hour, minute) ==
    DaysFromCivil(year, month, day) * MinutesPerDay + hour * 60 + minute

\* The calendar fields of an instant (getFullYear, getMonth() + 1, getDate,
\* hours, minutes), read in UTC: the container runs with TZ unset.
CivilFromMinutes(t) ==
    LET days == t \div MinutesPerDay
        rem  == t % MinutesPerDay
        z    == days + 719468
        era  == z \div 146097
        doe  == z - era * 146097
        yoe  == (doe - doe \div 1460 + doe \div 36524 - doe \div 146096) \div 365
        doy  == doe - (365 * yoe + yoe \div 4 - yoe \div 100)
        mp   == (5 * doy + 2) \div 153
        d    == doy - (153 * mp + 2) \div 5 + 1
        m    == IF mp < 10 THEN mp + 3 ELSE mp - 9
        y    == yoe + era * 400 + (IF m <= 2 THEN 1 ELSE 0)
    IN  [year |-> y, month |-> m, day |-> d,
         hour |-> rem \div 60, minute |-> rem % 60]

Pad2(n) == IF n < 10 THEN "0" \o ToString(n) ELSE ToString(n)

\* new Date(ts).toISOString(): "YYYY-MM-DDTHH:MM:00.000Z"
toISOString(t) ==
    LET c == CivilFromMinutes(t)
    IN  ToString(c.year) \o "-" \o Pad2(c.month) \o "-" \o Pad2(c.day) \o "T"
        \o Pad2(c.hour) \o ":" \o Pad2(c.minute) \o ":00.000Z"


\* getTzOffsetMs(date, "Europe/Madrid"), in minutes: the formatToParts /
\* Date.UTC round trip yields the zone's offset from UTC at that instant,
\* +1 h, or +2 h between the last Sundays of March and October (01:00 UTC).
LastSunday(y, m) ==
    LET d31 == DaysFromCivil(y, m, 31)
    IN  d31 - ((d31 + 4) % 7)

getTzOffsetMs(t) ==
    LET y     == CivilFromMinutes(t).year
        start == LastSunday(y, 3) * MinutesPerDay + 60
        end   == LastSunday(y, 10) * MinutesPerDay + 60
    IN  IF t >= start /\ t < end THEN 120 ELSE 60

\* toZonedTimestamp(year, month, day, hour, minute)
toZonedTimestamp(year, month, day, hour, minute) ==
    LET guess == DateUTC(year, month, day, hour, minute)
    IN  guess - getTzOffsetMs(guess)

\* nowInTz(TZ): the Madrid wall clock, held as if it were a UTC instant
nowInTz(t) == t + getTzOffsetMs(t)

(***************************************************************************)
(* Texts.  String.prototype.replace with a string pattern, the regular     *)
(* expression /UTC.*$/, and new Date(text) for the two shapes of text the  *)
(* table holds: the ISO text that toISOString writes, and Liquipedia's     *)
(* "June 20, 2025 - 18:00 CEST".  The parser of the runtime takes a zone   *)
(* abbreviation only if it is UTC or GMT (or a North American one, which   *)
(* Liquipedia does not print for these matches); a text of any other shape *)
(* is an Invalid Date.                                                     *)
(***************************************************************************)
\* s.indexOf(pat) + 1; 0 when pat does not occur
Find(s, pat) ==
    LET hits == {i \in 1 .. (Len(s) - Len(pat) + 1) :
                    SubSeq(s, i, i + Len(pat) - 1) = pat}
    IN  IF hits = {} THEN 0 ELSE CHOOSE i \in hits : \A j \in hits : i <= j

\* s.replace(pat, by): the first occurrence only
replace(s, pat, by) ==
    LET k == Find(s, pat)
    IN  IF k = 0 THEN s
        ELSE SubSeq(s, 1, k - 1) \o by \o SubSeq(s, k + Len(pat), Len(s))

\* s.replace(/UTC.*$/, "UTC")
replaceUTC(s) ==
    LET k == Find(s, "UTC")
    IN  IF k = 0 THEN s ELSE SubSeq(s, 1, k - 1) \o "UTC"

IsDigits(s) ==
    /\ s # ""
    /\ \A i \in 1 .. Len(s) : Find("0123456789", SubSeq(s, i, i)) # 0

RECURSIVE NumberOf(_)
NumberOf(s) ==
    IF s = "" THEN 0
    ELSE NumberOf(SubSeq(s, 1, Len(s) - 1)) * 10
         + Find("0123456789", SubSeq(s, Len(s), Len(s))) - 1

\* the words of a text, separated by runs of spaces
RECURSIVE Words(_)
Words(s) ==
    IF s = "" THEN <<>>
    ELSE LET k == Find(s, " ")
         IN  IF k = 0 THEN <<s>>
             ELSE (IF k = 1 THEN <<>> ELSE <<SubSeq(s, 1, k - 1)>>)
                  \o Words(SubSeq(s, k + 1, Len(s)))

MonthNames ==
    [January |-> 1, February |-> 2, March |-> 3, April |-> 4, May |-> 5,
     June |-> 6, July |-> 7, August |-> 8, September |-> 9, October |-> 10,
     November |-> 11, December |-> 12]

\* "YYYY-MM-DDTHH:MM:SS.sssZ"; Absent is the Invalid Date
ParseISO(s) ==
    IF /\ Len(s) = 24
       /\ SubSeq(s, 5, 5) = "-" /\ SubSeq(s, 8, 8) = "-"
       /\ SubSeq(s, 11, 11) = "T" /\ SubSeq(s, 14, 14) = ":"
       /\ SubSeq(s, 17, 17) = ":" /\ SubSeq(s, 20, 20) = "."
       /\ SubSeq(s, 24, 24) = "Z"
       /\ IsDigits(SubSeq(s, 1, 4)) /\ IsDigits(SubSeq(s, 6, 7))
       /\ IsDigits(SubSeq(s, 9, 10)) /\ IsDigits(SubSeq(s, 12, 13))
       /\ IsDigits(SubSeq(s, 15, 16)) /\ IsDigits(SubSeq(s, 18, 19))
       /\ IsDigits(SubSeq(s, 21, 23))
    THEN Some(DateUTC(NumberOf(SubSeq(s, 1, 4)), NumberOf(SubSeq(s, 6, 7)),
                      NumberOf(SubSeq(s, 9, 10)), NumberOf(SubSeq(s, 12, 13)),
                      NumberOf(SubSeq(s, 15, 16))))
    ELSE Absent

\* "June 20, 2025 18:00 UTC"
ParseLegacy(s) ==
    LET w == Words(s)
    IN  IF /\ Len(w) = 5
           /\ w[1] \in DOMAIN MonthNames
           /\ Len(w[2]) >= 2
           /\ SubSeq(w[2], Len(w[2]), Len(w[2])) = ","
           /\ IsDigits(SubSeq(w[2], 1, Len(w[2]) - 1))
           /\ IsDigits(w[3])
           /\ Len(w[4]) = 5 /\ SubSeq(w[4], 3, 3) = ":"
           /\ IsDigits(SubSeq(w[4], 1, 2)) /\ IsDigits(SubSeq(w[4], 4, 5))
           /\ w[5] \in {"UTC", "GMT"}
        THEN Some(DateUTC(NumberOf(w[3]), MonthNames[w[1]],
                          NumberOf(SubSeq(w[2], 1, Len(w[2]) - 1)),
                          NumberOf(SubSeq(w[4], 1, 2)),
                          NumberOf(SubSeq(w[4], 4, 5))))
        ELSE Absent

\* new Date(text)
DateParse(s) == IF ParseISO(s) # Absent THEN ParseISO(s) ELSE ParseLegacy(s)

\* rawDate = match.date?.replace(" - ", " ").replace(/UTC.*$/, "UTC");
\* start = new Date(rawDate): Absent when isNaN(start)
start(date) ==
    IF date = NULL THEN Absent
    ELSE DateParse(replaceUTC(replace(date, " - ", " ")))

(***************************************************************************)
(* Sequence helpers.                                                       *)
(***************************************************************************)
MapSeq(F(_), s) == [i \in 1 .. Len(s) |-> F(s[i])]

RECURSIVE Concat(_)
Concat(tokens) ==
    IF tokens = <<>> THEN "" ELSE Head(tokens) \o Concat(Tail(tokens))

\* the rows of a and of b are the same multiset
SameRows(a, b) ==
    /\ Len(a) = Len(b)
    /\ \A r \in {a[i] : i \in 1 .. Len(a)} \cup {b[i] : i \in 1 .. Len(b)} :
          Cardinality({i \in 1 .. Len(a) : a[i] = r})
            = Cardinality({i \in 1 .. Len(b) : b[i] = r})

IsPrefix(a, b) == Len(a) <= Len(b) /\ a = SubSeq(b, 1, Len(a))

(***************************************************************************)
(* The Liquipedia page (POST /matches/sync).  A page is the sequence of    *)
(* table.infobox_matches_content cards of the "Upcoming Matches" panel;    *)
(* the empty page also stands for a page without that panel (`return []`). *)
(* A card's date is its text as a sequence of tokens, a token being a word *)
(* or a run of whitespace.                                                 *)
(***************************************************************************)
Whitespace == {" ", "  "}

LCard(t1, t2, b, d) == [team1 |-> t1, team2 |-> t2, bo |-> b, date |-> d]

LiquipediaA ==
    << LCard("G2", "FNC", "Bo3",
             <<"June", " ", "20,", " ", "2025", " ", "-", " ", "18:00", " ", "CEST">>),
       LCard("G2", "KC", "Bo5",
             <<"June", " ", "21,", " ", "2025", " ", "-", "  ", "20:00", " ", "UTC+2">>) >>
LiquipediaB ==
    << LCard("G2", "KC", "Bo5",
             <<"June", " ", "21,", " ", "2025", " ", "-", "  ", "20:00", " ", "UTC+2">>),
       LCard("G2", NULL, "Bo3",
             <<"June", " ", "22,", " ", "2025", " ", "-", " ", "18:00", " ", "CEST">>),
       LCard("BDS", "G2", NULL, <<>>) >>
LiquipediaPages == {LiquipediaA, LiquipediaB, <<>>}

\* a page with two matches against an opponent to be determined, neither
\* with a date yet
LiquipediaC ==
    << LCard("G2", "TBD", "Bo3", <<>>),
       LCard("G2", "TBD", "Bo5", <<>>) >>
BracketPages == LiquipediaPages \cup {LiquipediaC}

\* date.replace(/\s+/g, "_")
Underscored(tokens) ==
    Concat(MapSeq(LAMBDA t : IF t \in Whitespace THEN "_" ELSE t, tokens))

\* one element of `out`, as the parameter list of its INSERT (the logo,
\* stream and tournament columns are copied through like bo and are left out)
LiquipediaRecord(card) ==
    LET date == Concat(card.date)
    IN  [id    |-> card.team1 \o "-" \o card.team2 \o "-"
                   \o (IF TruthyText(date) THEN Underscored(card.date)
                       ELSE "unknown"),
         team1 |-> card.team1,
         team2 |-> card.team2,
         bo    |-> card.bo,
         date  |-> date]

\* page.evaluate of /matches/sync: the cards with both teams, in page order
LiquipediaExtract(page) ==
    MapSeq(LiquipediaRecord,
           SelectSeq(page, LAMBDA c : TruthyText(c.team1) /\ TruthyText(c.team2)))

(***************************************************************************)
(* The dpm.lol page (POST /matches/sync-dpm).  A card carries the day and  *)
(* month of its section header (0: the header did not parse), the hour and *)
(* minute shown (numeric texts, given by their value), both team names,    *)
(* and the "phase - BOx" text as tokens.                                   *)
(***************************************************************************)
DCard(d, mo, h, mi, t1, t2, pb) ==
    [dayNum |-> d, monthNum |-> mo, hh |-> h, mm |-> mi,
     team1 |-> t1, team2 |-> t2, phaseAndBo |-> pb]

DpmA ==
    << DCard(29, 12, 18, 0, "G2", "FNC", <<"Playoffs", " ", "-", " ", "bo3">>),
       DCard(2, 1, 17, 0, "KC", "G2", <<"Groups">>) >>
DpmB ==
    << DCard(0, 0, 9, 30, "G2", "BDS", <<"BO1">>),
       DCard(29, 12, 18, 0, NULL, "FNC", <<"BO5">>) >>
DpmPages == {DpmA, DpmB}

\* (m.phaseAndBo || "").match(/\bBO\d\b/i), upper-cased; NULL when no match
BoTokens == [BO1 |-> "BO1", BO3 |-> "BO3", BO5 |-> "BO5",
             bo1 |-> "BO1", bo3 |-> "BO3", bo5 |-> "BO5"]
BoOf(tokens) ==
    LET hits == SelectSeq(tokens, LAMBDA t : t \in DOMAIN BoTokens)
    IN  IF hits = <<>> THEN NULL ELSE BoTokens[Head(hits)]

\* 7 * 24 * 60 * 60 * 1000 ms, in minutes
WeekMinutes == (7 * 24 * 60 * 60 * 1000) \div MsPerMinute

\* dateISO.replace(/[-:]/g, "").slice(0, 13) + "00Z"
IdStamp(t) ==
    LET c == CivilFromMinutes(t)
    IN  ToString(c.year) \o Pad2(c.month) \o Pad2(c.day) \o "T"
        \o Pad2(c.hour) \o Pad2(c.minute) \o "00Z"

\* one element of `parsed`, with dtMadrid
DpmRecord(card, t) ==
    LET nowTz   == CivilFromMinutes(nowInTz(t))
        day     == IF card.dayNum # 0 THEN card.dayNum ELSE nowTz.day
        month   == IF card.monthNum # 0 THEN card.monthNum ELSE nowTz.month
        ts      == toZonedTimestamp(nowTz.year, month, day, card.hh, card.mm)
        bo      == BoOf(card.phaseAndBo)
    IN  [id       |-> (IF TruthyText(card.team1) THEN card.team1 ELSE "T1") \o "-"
                      \o (IF TruthyText(card.team2) THEN card.team2 ELSE "T2") \o "-"
                      \o IdStamp(ts) \o "-"
                      \o (IF TruthyText(bo) THEN bo ELSE "BO?"),
         dtMadrid |-> ts,
         team1    |-> card.team1,
         team2    |-> card.team2,
         bo       |-> bo,
         date     |-> toISOString(ts)]

\* `lastWeek`, as the parameter lists of the INSERTs: the cards with both
\* teams whose instant lies in [weekAgoTz, nowTz], the clock being read at t
DpmLastWeek(raw, t) ==
    LET nowTz     == nowInTz(t)
        weekAgoTz == nowTz - WeekMinutes
        parsed    == SelectSeq(MapSeq(LAMBDA c : DpmRecord(c, t), raw),
                               LAMBDA r : TruthyText(r.team1) /\ TruthyText(r.team2))
        lastWeek  == SelectSeq(parsed,
                               LAMBDA r : r.dtMadrid >= weekAgoTz /\ r.dtMadrid <= nowTz)
    IN  MapSeq(LAMBDA r : [id |-> r.id, team1 |-> r.team1, team2 |-> r.team2,
                           bo |-> r.bo, date |-> r.date], lastWeek)

(***************************************************************************)
(* The store's tables years and players, as the cached handlers read them. *)
(* A player's `years` column is the list of the years it names; the        *)
(* pattern of `years LIKE '%year%'` is matched against whole years.        *)
(***************************************************************************)
Player(i, n, ys) == [id |-> i, nickname |-> n, years |-> ys]

DbA ==
    [years   |-> <<>>,
     players |-> <<Player("1", "caps", <<"2019">>)>>]
DbB ==
    [years   |-> <<[year |-> "2019"], [year |-> "2020"]>>,
     players |-> <<Player("1", "caps", <<"2019", "2020">>),
                   Player("2", "jankos", <<"2020">>)>>]
Dbs == {DbA, DbB}

Years == {"2020"}
\* "1" and "caps" name the same player; "jankos" is in DbB only
Identifiers == {"1", "caps", "jankos"}

Like(years, year) == \E i \in 1..Len(years) : years[i] = year

(***************************************************************************)
(* The op.gg leaderboard rows that page.evaluate returns for /ranking, and *)
(* the sort of the handler (descending lp; Array.prototype.sort is         *)
(* stable).                                                                *)
(***************************************************************************)
Row(n, points, r) == [nickname |-> n, tier |-> "Challenger", lp |-> points, rank |-> r]

OpggA == <<Row("caps", 900, "12"), Row("hans", 1200, "3")>>
OpggB == <<Row("caps", 1300, "1"), Row("hans", 1200, "3"), Row("mikyx", 1300, "2")>>
OpggPages == {OpggA, OpggB}
\* and the page on which no row is one of the target players
LeaderboardPages == OpggPages \cup {<<>>}

\* A handler that answers the rows as scraped.
AsScraped(data) == data

InsertByLp(sorted, r) ==
    LET k == Cardinality({i \in 1..Len(sorted) : sorted[i].lp >= r.lp})
    IN  SubSeq(sorted, 1, k) \o <<r>> \o SubSeq(sorted, k + 1, Len(sorted))

RECURSIVE SortByLp(_)
SortByLp(data) ==
    IF data = <<>> THEN <<>>
    ELSE InsertByLp(SortByLp(SubSeq(data, 1, Len(data) - 1)), data[Len(data)])

(***************************************************************************)
(* What https://g2historyapi.fly.dev/matches/upcoming answers to the       *)
(* calendar handler: the listing, or a refusal with a JSON object.  A JSON *)
(* value is [array, items]: an array with its items, or an object.         *)
(***************************************************************************)
JsonArray(items) == [array |-> TRUE, items |-> items]
JsonObject == [array |-> FALSE, items |-> <<>>]

ProductionAnswers ==
    {[ok |-> TRUE, status |-> 200,
      data |-> JsonArray(DpmLastWeek(DpmA, DateUTC(2025, 12, 30, 12, 0)))],
     [ok |-> TRUE, status |-> 200, data |-> JsonArray(<<>>)],
     [ok |-> FALSE, status |-> 401, data |-> JsonObject]}

\* response.statusText of an answer
statusText(answer) ==
    CASE answer.status = 200 -> "OK"
      [] answer.status = 401 -> "Unauthorized"
      [] OTHER               -> "Internal Server Error"

\* err.message of a rejected db.execute
StoreErrors == {"SQLITE_ERROR: no such table: years", "fetch failed"}

CalendarIds ==
    {"G2-FNC-20251229T170000Z-BO3", "G2-FNC-June_20,_2025_-_18:00_CEST",
     "G2-KC-June_21,_2025_-_20:00_UTC+2", "BDS-G2-unknown", "none"}

(***************************************************************************)
(* requireApiKey.  An Authorization header is its text as a sequence of    *)
(* tokens, a token being a single space or a run of other characters; the  *)
(* empty sequence is the header that is not sent (`req.get(...) || ""`).   *)
(* A header value arrives without leading or trailing spaces.              *)
(***************************************************************************)
\* auth.split(" ")
RECURSIVE split(_)
split(tokens) ==
    IF tokens = <<>> THEN <<"">>
    ELSE LET init == split(SubSeq(tokens, 1, Len(tokens) - 1))
             last == tokens[Len(tokens)]
         IN  IF last = " " THEN Append(init, "")
             ELSE [init EXCEPT ![Len(init)] = @ \o last]

Authorizations ==
    {<<>>,
     <<"Bearer">>,
     <<"Bearer", " ", "secret">>,
     <<"Bearer", " ", "wrong">>,
     <<"Bearer", " ", " ", "secret">>,
     <<"Basic", " ", "secret">>,
     <<"secret">>}

\* the values of process.env.API_KEY: unset, set to the empty text, set
ApiKeys == {Absent, Some(""), Some("secret")}

\* requireApiKey calls next(): `[scheme, key] = auth.split(" ")`, and
\* neither `scheme !== "Bearer"` nor `key !== process.env.API_KEY`; a
\* missing second part and an unset variable are both undefined.
requireApiKey(auth, apiKey) ==
    LET parts  == split(auth)
        scheme == parts[1]
        key    == IF Len(parts) >= 2 THEN Some(parts[2]) ELSE Absent
    IN  ~(scheme # "Bearer" \/ key # apiKey)

(***************************************************************************)
(* State.                                                                  *)
(***************************************************************************)
VARIABLES
    now,               \* the clock (Date.now()), in minutes
    ticks,             \* clock advances so far
    matches_upcoming,  \* the store's table, in insertion order
    liquipedia,        \* the Liquipedia page as it is upstream
    dpm,               \* the dpm.lol page as it is upstream
    sync,              \* the sync requests, one record per slot
    upcoming,          \* the last response of GET /matches/upcoming
    leftover,          \* history: the table is what a sync that stopped
                       \* between its DELETE and its last INSERT left
    lastRun,           \* history: the last sync that answered ok with no
                       \* other sync overlapping it, if the table has not
                       \* been written since
    rev,               \* the revision of the server that is running
    API_KEY,           \* process.env.API_KEY: Absent (unset) or Some(text)
    orphaned,          \* a browser session is open that no request in
                       \* flight will close
    preClear,          \* history: the handlers that hold, and the cache
                       \* keys whose entry is, a result the store gave
                       \* before the last POST /cache/clear answered
    db,                \* the store's tables years and players
    opgg,              \* the op.gg leaderboard as it is upstream
    memoryCache,       \* the memoryCache object
    handler,           \* the cached GET requests, one record per slot
    sent               \* the response the last step sent, if it sent one

timeVars  == <<now, ticks>>
storeVars == <<matches_upcoming, leftover>>
pageVars  == <<liquipedia, dpm>>
syncVars  == <<matches_upcoming, leftover, liquipedia, dpm, sync, upcoming,
               lastRun>>
cacheVars == <<rev, API_KEY, orphaned, preClear, db, opgg, memoryCache,
               handler, sent>>
vars == <<now, ticks, matches_upcoming, liquipedia, dpm, sync, upcoming,
          leftover, lastRun, rev, API_KEY, orphaned, preClear, db, opgg, memoryCache,
          handler, sent>>

\* two requests may be in flight at once
SyncSlots == {1, 2}
Endpoints == {"/matches/sync", "/matches/sync-dpm"}

(***************************************************************************)
(* A sync request (POST /matches/sync, POST /matches/sync-dpm).            *)
(*   pc       where the handler is: idle, fetch (browser launched, until   *)
(*            page.evaluate has returned), delete, insert (the loop),      *)
(*            finally (response sent, browser.close pending)               *)
(*   browser  the `browser` variable: none (undefined) or open             *)
(*   matches  `matches` / `lastWeek`: the rows to insert                   *)
(*   i        INSERTs completed                                            *)
(*   res      the response sent: Absent, or <<[status, updated]>>          *)
(* and, for stating the properties only:                                   *)
(*   alone    no other sync request has been in flight since this one      *)
(*            started                                                      *)
(*   fetched  page.evaluate has returned                                   *)
(*   deleted  its DELETE was carried out                                   *)
(*   prev     the table as its DELETE found it, and whether that was the   *)
(*            leftover of a stopped sync; kept while the request is alone  *)
(*   before   lastRun as its DELETE found it; kept while the request is    *)
(*            alone                                                        *)
(*   src, at  the page it evaluated and the clock it read                  *)
(*   err      the call that failed                                         *)
(***************************************************************************)
IdleSync ==
    [pc |-> "idle", endpoint |-> "/matches/sync", browser |-> "none",
     matches |-> <<>>, i |-> 0, res |-> Absent,
     alone |-> TRUE, fetched |-> FALSE, deleted |-> FALSE,
     prev |-> <<>>, prevLeftover |-> FALSE,
     src |-> <<>>, at |-> 0, before |-> Absent, err |-> "none"]

\* no GET /matches/upcoming has been answered since the table was written
NoUpcoming == [status |-> 0, rows |-> <<>>]

InFlight(p) == sync[p].pc # "idle"

Ok(n) == Some([status |-> 200, updated |-> n])
Error500 == Some([status |-> 500, updated |-> 0])

\* the other requests in flight learn that they are no longer alone
Overlapped(p, rec) ==
    [q \in SyncSlots |->
        IF q = p THEN rec
        ELSE IF InFlight(q)
        THEN [sync[q] EXCEPT !.alone = FALSE, !.prev = <<>>,
                             !.prevLeftover = FALSE, !.before = Absent]
        ELSE sync[q]]

\* A handler without the try/catch around its steps: the failure of `step`
\* is noted and the handler goes on to the next statement.
Swallowed(p, step) ==
    sync' = [sync EXCEPT ![p].err = step,
                         ![p].pc = IF @ = "fetch" THEN "delete" ELSE @]

\* catch (err) { res.status(500).json(...) }, reached from step `step`
Caught(p, step) ==
    sync' = [sync EXCEPT ![p].pc = "finally", ![p].res = Error500,
                         ![p].err = step]

\* browser = await playwright.chromium.launch(...)
SyncStart(p, e) ==
    /\ sync[p].pc = "idle"
    /\ sync' = Overlapped(p, [IdleSync EXCEPT
                   !.pc = "fetch", !.endpoint = e, !.browser = "open",
                   !.alone = \A q \in SyncSlots \ {p} : ~InFlight(q)])
    /\ UNCHANGED <<timeVars, storeVars, pageVars, upcoming, lastRun, cacheVars>>

\* the launch is rejected: `browser` stays undefined
SyncLaunchFail(p, e) ==
    /\ sync[p].pc = "idle"
    /\ sync' = Overlapped(p, [IdleSync EXCEPT
                   !.pc = "finally", !.endpoint = e, !.res = Error500,
                   !.err = "launch",
                   !.alone = \A q \in SyncSlots \ {p} : ~InFlight(q)])
    /\ UNCHANGED <<timeVars, storeVars, pageVars, upcoming, lastRun, cacheVars>>

\* A fetch whose ids carry the time of the run.
FetchedStamped(e) ==
    MapSeq(LAMBDA r : [r EXCEPT !.id = r.id \o "-" \o IdStamp(now)],
           IF e = "/matches/sync" THEN LiquipediaExtract(liquipedia)
           ELSE DpmLastWeek(dpm, now))

\* what page.evaluate and the code up to the DELETE make of the page
Fetched(e) ==
    IF e = "/matches/sync" THEN LiquipediaExtract(liquipedia)
    ELSE DpmLastWeek(dpm, now)

\* newContext, newPage, goto, waitForSelector, page.evaluate (and, for
\* sync-dpm, the parsing and the 7-day filter) all succeed
SyncFetch(p) ==
    /\ sync[p].pc = "fetch"
    /\ sync' = [sync EXCEPT
                   ![p].pc = "delete",
                   ![p].fetched = TRUE,
                   ![p].matches = Fetched(sync[p].endpoint),
                   ![p].src = IF sync[p].endpoint = "/matches/sync"
                              THEN liquipedia ELSE dpm,
                   ![p].at = now]
    /\ UNCHANGED <<timeVars, storeVars, pageVars, upcoming, lastRun, cacheVars>>

FetchSteps == {"goto", "waitForSelector", "evaluate"}

SyncFetchFail(p, step) ==
    /\ sync[p].pc = "fetch"
    /\ Caught(p, step)
    /\ UNCHANGED <<timeVars, storeVars, pageVars, upcoming, lastRun, cacheVars>>

\* A DELETE that removes nothing.
KeepAll(table) == table

\* await db.execute("DELETE FROM matches_upcoming")
DeleteAll(table) == <<>>

SyncDelete(p) ==
    /\ sync[p].pc = "delete"
    /\ matches_upcoming' = DeleteAll(matches_upcoming)
    /\ leftover' = FALSE
    /\ sync' = [sync EXCEPT ![p].pc = "insert", ![p].deleted = TRUE,
                            ![p].prev = IF sync[p].alone THEN matches_upcoming
                                        ELSE <<>>,
                            ![p].prevLeftover = sync[p].alone /\ leftover,
                            ![p].before = IF sync[p].alone THEN lastRun
                                          ELSE Absent]
    /\ upcoming' = NoUpcoming
    /\ lastRun' = Absent
    /\ UNCHANGED <<timeVars, pageVars, cacheVars>>

SyncDeleteFail(p) ==
    /\ sync[p].pc = "delete"
    /\ Caught(p, "delete")
    /\ UNCHANGED <<timeVars, storeVars, pageVars, upcoming, lastRun, cacheVars>>

\* for (const m of matches) await db.execute("INSERT INTO matches_upcoming ...")
InsertRow(table, row) == Append(table, row)

SyncInsert(p) ==
    /\ sync[p].pc = "insert"
    /\ sync[p].i < Len(sync[p].matches)
    /\ matches_upcoming' = InsertRow(matches_upcoming, sync[p].matches[sync[p].i + 1])
    /\ leftover' = leftover
    /\ sync' = [sync EXCEPT ![p].i = @ + 1]
    /\ upcoming' = NoUpcoming
    /\ lastRun' = Absent
    /\ UNCHANGED <<timeVars, pageVars, cacheVars>>

SyncInsertFail(p) ==
    /\ sync[p].pc = "insert"
    /\ sync[p].i < Len(sync[p].matches)
    /\ Caught(p, "insert")
    /\ leftover' = TRUE
    /\ UNCHANGED <<timeVars, matches_upcoming, pageVars, upcoming, lastRun, cacheVars>>

\* res.json({ status: "ok", updated: matches.length })
Updated(rec) == Len(rec.matches)

SyncRespond(p) ==
    /\ sync[p].pc = "insert"
    /\ sync[p].i = Len(sync[p].matches)
    /\ sync' = [sync EXCEPT ![p].pc = "finally", ![p].res = Ok(Updated(sync[p]))]
    /\ lastRun' = IF sync[p].alone
                  THEN Some([endpoint |-> sync[p].endpoint, src |-> sync[p].src,
                             at |-> sync[p].at, rows |-> matches_upcoming])
                  ELSE Absent
    /\ UNCHANGED <<timeVars, storeVars, pageVars, upcoming, cacheVars>>

\* finally { if (browser) await browser.close(); } and the request is over
SyncFinally(p) ==
    /\ sync[p].pc = "finally"
    /\ sync' = [sync EXCEPT ![p] = IdleSync]
    /\ UNCHANGED <<timeVars, storeVars, pageVars, upcoming, lastRun, cacheVars>>

\* A close whose failure is answered like the failures of the try block.
SyncCloseCaught(p) ==
    /\ sync[p].pc = "finally"
    /\ sync[p].browser = "open"
    /\ sync' = [sync EXCEPT ![p].res = Error500, ![p].err = "close",
                            ![p].browser = "none"]
    /\ UNCHANGED <<timeVars, storeVars, pageVars, upcoming, lastRun, cacheVars>>

\* browser.close() rejects in the finally block: the rejection leaves the
\* handler, whose catch belongs to the try block and does not run; the
\* request is over with the response it has.
SyncCloseFail(p) ==
    /\ sync[p].pc = "finally"
    /\ sync[p].browser = "open"
    /\ sync' = [sync EXCEPT ![p] = [IdleSync EXCEPT !.err = "close"]]
    /\ UNCHANGED <<timeVars, storeVars, pageVars, upcoming, lastRun, cacheVars>>

\* The process dies (the platform stops or restarts the machine): every
\* request in flight ends where it is, without a response.
Crash ==
    /\ \E p \in SyncSlots : InFlight(p)
    /\ leftover' = (leftover \/ \E p \in SyncSlots :
                        sync[p].pc = "insert" /\ sync[p].i < Len(sync[p].matches))
    /\ sync' = [p \in SyncSlots |-> IdleSync]
    /\ UNCHANGED <<timeVars, matches_upcoming, pageVars, upcoming, lastRun, cacheVars>>

(***************************************************************************)
(* GET /matches/upcoming: one SELECT, then the response.  The rows are     *)
(* given in table order: the collation of ORDER BY date is not modelled,   *)
(* and the properties compare listings as multisets (SameRows).            *)
(* `upcoming` keeps the response until the table is next written.          *)
(***************************************************************************)
\* A listing that is answered from memory when the calendar holds one.
SelectCached(table) ==
    IF memoryCache.matches # Absent /\ memoryCache.matches[1].array
    THEN memoryCache.matches[1].items
    ELSE table

\* db.execute("SELECT * FROM matches_upcoming ORDER BY date ASC").rows
SelectAll(table) == table

GetUpcoming ==
    /\ upcoming' = [status |-> 200, rows |-> SelectAll(matches_upcoming)]
    /\ UNCHANGED <<timeVars, storeVars, pageVars, sync, lastRun, cacheVars>>

GetUpcomingFail ==
    /\ upcoming' = [status |-> 500, rows |-> <<>>]
    /\ UNCHANGED <<timeVars, storeVars, pageVars, sync, lastRun, cacheVars>>

(***************************************************************************)
(* The environment: the upstream pages change, the clock advances.         *)
(***************************************************************************)
LiquipediaEdit(page) ==
    /\ page # liquipedia
    /\ liquipedia' = page
    /\ UNCHANGED <<timeVars, storeVars, dpm, sync, upcoming, lastRun, cacheVars>>

DpmEdit(page) ==
    /\ page # dpm
    /\ dpm' = page
    /\ UNCHANGED <<timeVars, storeVars, liquipedia, sync, upcoming, lastRun, cacheVars>>

(***************************************************************************)
(* The in-memory cache and the handlers that use it.                       *)
(*                                                                         *)
(* rev names the revision that is running: part_000 (ranking cache, four-  *)
(* key clear), part_001 (no ranking), and the two revisions of server.js   *)
(* (starting at its lines 1 and 809), which also cache the calendar's      *)
(* matches list.  The handlers of /years, /players, /players/year/:year,   *)
(* /players/:identifier and /ranking are the same in every revision that   *)
(* has them.  In server.js the requests modelled here carry the API key.   *)
(*                                                                         *)
(* A null field is Absent and a field holding v is Some(v); a Map is a     *)
(* function from its possible keys to Absent or Some(v).                   *)
(***************************************************************************)
Revisions == {"part_000", "part_001", "server.js:1", "server.js:809"}

\* the second revision held in part_003 (from its line 139): /years and
\* /players read the store on every request, there is no memoryCache
HasCache == rev # "part_003:139"

\* the cached routes the revision registers (its /players/:nickname is not
\* modelled)
Registered(route) ==
    rev = "part_003:139" => route \in {"/years", "/players"}

HasRanking == rev \notin {"part_001", "part_003:139"}
HasMatches == rev \in {"server.js:1", "server.js:809"}

CACHE_DURATION ==
    IF rev = "part_000" THEN 30 * 60 * 1000 ELSE 60 * 60 * 1000

EmptyCache ==
    [years                |-> Absent,
     players              |-> Absent,
     playersByYear        |-> [y \in Years |-> Absent],
     playerByIdOrNickname |-> [i \in Identifiers |-> Absent],
     ranking              |-> Absent,
     rankingTimestamp     |-> Absent,
     matches              |-> Absent,
     matchesTimestamp     |-> Absent]

Routes == {"/years", "/players", "/players/year/:year", "/players/:identifier"}

\* the values of the route's parameter ("" for a route without one)
Params(route) ==
    CASE route = "/players/year/:year"  -> Years
      [] route = "/players/:identifier" -> Identifiers
      [] OTHER                          -> {""}

(***************************************************************************)
(* A cached GET request.                                                   *)
(*   pc      idle; execute (db.execute awaited: the query is with the      *)
(*           store); scrape, close (GET /ranking: up to page.evaluate,     *)
(*           then browser.close); fetch (GET /calendar/:id: the fetch of   *)
(*           the listing)                                                  *)
(*   route, key   the route and the value of its parameter                 *)
(*   now     the `now` that GET /ranking read on entry                     *)
(*   result  the value the awaited call returned                           *)
(* A response is the route and key of the request, the status, the body,   *)
(* and whether the body was taken from memoryCache without any awaited     *)
(* call.                                                                   *)
(***************************************************************************)
Handlers == {1, 2}

\* no handler and no entry holds a result from before a clear
NoneHeld == [handlers |-> {}, keys |-> {}]

IdleHandler ==
    [pc |-> "idle", route |-> "", key |-> "", now |-> 0, result |-> Absent]

NoResponse ==
    [route |-> "", key |-> "", status |-> 0, body |-> [none |-> TRUE],
     hit |-> FALSE]

Response(route, key, status, body, hit) ==
    [route |-> route, key |-> key, status |-> status, body |-> body,
     hit |-> hit]

\* A catch block that answers with an empty listing instead of the error.
EmptyListing == [rows |-> <<>>]

\* res.status(500).json({ error: "Error interno del servidor" })
InternalError == [error |-> "Error interno del servidor"]

\* if (memoryCache.years): a field holds null or an array, and every array
\* is truthy
EmptyIsFalsy(field) == field # Absent /\ field[1] # <<>>

Truthy(field) == field # Absent

\* memoryCache.playersByYear.has(year)
has(map, key) == map[key] # Absent

\* the entry the route reads, and whether the handler takes it
EntryOf(cache, route, key) ==
    CASE route = "/years"               -> cache.years
      [] route = "/players"             -> cache.players
      [] route = "/players/year/:year"  -> cache.playersByYear[key]
      [] route = "/players/:identifier" -> cache.playerByIdOrNickname[key]

Entry(route, key) == EntryOf(memoryCache, route, key)

CacheHit(route, key) ==
    CASE route = "/years"               -> Truthy(memoryCache.years)
      [] route = "/players"             -> Truthy(memoryCache.players)
      [] route = "/players/year/:year"  -> has(memoryCache.playersByYear, key)
      [] route = "/players/:identifier" -> has(memoryCache.playerByIdOrNickname, key)

\* res.json(memoryCache.years), res.json(result.rows), res.json(result.rows[0])
Body(route, v) ==
    IF route = "/players/:identifier" THEN [row |-> v] ELSE [rows |-> v]

\* the rows the store returns for the route's SELECT
Query(route, key) ==
    CASE route = "/years"               -> db.years
      [] route = "/players"             -> db.players
      [] route = "/players/year/:year"  ->
            SelectSeq(db.players, LAMBDA pl : Like(pl.years, key))
      [] route = "/players/:identifier" ->
            SelectSeq(db.players, LAMBDA pl : pl.id = key \/ pl.nickname = key)

\* A put that keeps nothing but the entry it writes.
PutAlone(route, key, v) ==
    CASE route = "/years"               -> [EmptyCache EXCEPT !.years = Some(v)]
      [] route = "/players"             -> [EmptyCache EXCEPT !.players = Some(v)]
      [] route = "/players/year/:year"  ->
            [EmptyCache EXCEPT !.playersByYear[key] = Some(v)]
      [] route = "/players/:identifier" ->
            [EmptyCache EXCEPT !.playerByIdOrNickname[key] = Some(v)]

\* memoryCache.years = result.rows, memoryCache.playersByYear.set(year, ...)
Put(route, key, v) ==
    CASE route = "/years"               -> [memoryCache EXCEPT !.years = Some(v)]
      [] route = "/players"             -> [memoryCache EXCEPT !.players = Some(v)]
      [] route = "/players/year/:year"  ->
            [memoryCache EXCEPT !.playersByYear[key] = Some(v)]
      [] route = "/players/:identifier" ->
            [memoryCache EXCEPT !.playerByIdOrNickname[key] = Some(v)]

\* the request arrives: the cache check, and on a miss the query is issued
GetStart(h, route, key) ==
    /\ handler[h].pc = "idle"
    /\ Registered(route)
    /\ key \in Params(route)
    /\ IF HasCache /\ CacheHit(route, key)
       THEN /\ sent' = Response(route, key, 200,
                                Body(route, Entry(route, key)[1]), TRUE)
            /\ handler' = handler
       ELSE /\ sent' = NoResponse
            /\ handler' = [handler EXCEPT ![h] =
                   [IdleHandler EXCEPT !.pc = "execute", !.route = route,
                                       !.key = key]]
    /\ UNCHANGED <<timeVars, syncVars, rev, API_KEY, orphaned, preClear, db, opgg, memoryCache>>

\* db.execute rejects with `err`: catch (error) { res.status(500).json(...) };
\* the catch of part_003's second revision sends err.message
DbReject(h, err) ==
    /\ handler[h].pc = "execute"
    /\ handler' = [handler EXCEPT ![h] = IdleHandler]
    /\ sent' = Response(handler[h].route, handler[h].key, 500,
                        IF rev = "part_003:139" THEN [error |-> err]
                        ELSE InternalError, FALSE)
    /\ UNCHANGED <<timeVars, syncVars, rev, API_KEY, orphaned, preClear, db, opgg, memoryCache>>

\* A continuation without the `result.rows.length === 0` check: rows[0] is
\* stored and sent also when there is none.
FirstOrNothing(route, rows) ==
    IF route = "/players/:identifier"
    THEN IF Len(rows) = 0 THEN Some([id |-> NULL, nickname |-> NULL, years |-> <<>>])
         ELSE Some(rows[1])
    ELSE Some(rows)

\* What the continuation stores and sends: result.rows, or result.rows[0]
\* for /players/:identifier, where `result.rows.length === 0` returns 404
\* before anything is stored.
Found(route, rows) ==
    IF route = "/players/:identifier"
    THEN IF Len(rows) = 0 THEN Absent ELSE Some(rows[1])
    ELSE Some(rows)

\* The store runs the SELECT and the continuation after `await
\* db.execute(...)` runs.  The continuation reads nothing but its result, so
\* the steps of other requests between the two are not told apart from the
\* same steps before the SELECT.
GetResume(h) ==
    LET route == handler[h].route
        key   == handler[h].key
        found == Found(route, Query(route, key))
    IN  /\ handler[h].pc = "execute"
        /\ handler' = [handler EXCEPT ![h] = IdleHandler]
        /\ IF found = Absent
           THEN /\ memoryCache' = memoryCache
                /\ sent' = Response(route, key, 404,
                                    [error |-> "Jugador no encontrado"], FALSE)
           ELSE /\ memoryCache' = IF HasCache THEN Put(route, key, found[1])
                                   ELSE memoryCache
                /\ sent' = Response(route, key, 200,
                                    Body(route, found[1]), FALSE)
        /\ preClear' = [preClear EXCEPT !.keys = @ \ {<<route, key>>}]
        /\ UNCHANGED <<timeVars, syncVars, rev, API_KEY, orphaned, db, opgg>>

\* GetResume in its two steps, for the requests of other clients that run
\* between them.  The store runs the SELECT: `result` is on its way back.
GetSelect(h) ==
    /\ handler[h].pc = "execute"
    /\ handler' = [handler EXCEPT ![h].pc = "resume",
                       ![h].result = Some(Query(handler[h].route, handler[h].key))]
    /\ sent' = NoResponse
    /\ preClear' = [preClear EXCEPT !.handlers = @ \ {h}]
    /\ UNCHANGED <<timeVars, syncVars, rev, API_KEY, orphaned, db, opgg, memoryCache>>

\* the continuation after `await db.execute(...)` runs on `result`
GetContinue(h) ==
    LET route == handler[h].route
        key   == handler[h].key
        found == Found(route, handler[h].result[1])
    IN  /\ handler[h].pc = "resume"
        /\ handler' = [handler EXCEPT ![h] = IdleHandler]
        /\ IF found = Absent
           THEN /\ memoryCache' = memoryCache
                /\ sent' = Response(route, key, 404,
                                    [error |-> "Jugador no encontrado"], FALSE)
                /\ preClear' = [preClear EXCEPT !.handlers = @ \ {h}]
           ELSE /\ memoryCache' = IF HasCache THEN Put(route, key, found[1])
                                   ELSE memoryCache
                /\ sent' = Response(route, key, 200,
                                    Body(route, found[1]), FALSE)
                /\ preClear' =
                      [handlers |-> preClear.handlers \ {h},
                       keys     |-> IF ~HasCache THEN preClear.keys
                                    ELSE IF h \in preClear.handlers
                                    THEN preClear.keys \cup {<<route, key>>}
                                    ELSE preClear.keys \ {<<route, key>>}]
        /\ UNCHANGED <<timeVars, syncVars, rev, API_KEY, orphaned, db, opgg>>

(***************************************************************************)
(* POST /players (second revision of part_003): one INSERT with the fields *)
(* of the request body, then 201; the id column is assigned by the store.  *)
(* A rejected INSERT is answered 400 with err.message.                     *)
(***************************************************************************)
MaxPlayers == 3

PlayerBodies ==
    {[nickname |-> "hans", years |-> <<"2020">>],
     [nickname |-> "caps", years |-> <<>>]}

HasPostPlayers == rev = "part_003:139"

\* INSERT INTO players (nickname, ..., years, ...) VALUES (?, ...)
InsertPlayer(players, body) ==
    Append(players, Player(ToString(Len(players) + 1), body.nickname, body.years))

PostPlayers(body) ==
    /\ HasPostPlayers
    /\ Len(db.players) < MaxPlayers
    /\ db' = [db EXCEPT !.players = InsertPlayer(@, body)]
    /\ sent' = Response("POST /players", "", 201,
                        [message |-> "Jugador añadido con éxito"], FALSE)
    /\ UNCHANGED <<timeVars, syncVars, rev, API_KEY, orphaned, preClear, opgg, memoryCache, handler>>

PostPlayersFail(err) ==
    /\ HasPostPlayers
    /\ sent' = Response("POST /players", "", 400, [error |-> err], FALSE)
    /\ UNCHANGED <<timeVars, syncVars, rev, API_KEY, orphaned, preClear, db, opgg, memoryCache, handler>>

(***************************************************************************)
(* POST /cache/clear.                                                      *)
(***************************************************************************)
\* the handler of part_000 and part_001
ClearFour(cache) ==
    [cache EXCEPT !.years = Absent,
                  !.players = Absent,
                  !.playersByYear = [y \in Years |-> Absent],
                  !.playerByIdOrNickname = [i \in Identifiers |-> Absent]]

\* A clear that resets the cached values and leaves their timestamps.
ClearValues(cache) ==
    [ClearFour(cache) EXCEPT !.ranking = Absent, !.matches = Absent]

\* the handler of server.js
ClearAll(cache) ==
    [ClearFour(cache) EXCEPT !.ranking = Absent,
                             !.rankingTimestamp = Absent,
                             !.matches = Absent,
                             !.matchesTimestamp = Absent]

CacheClear ==
    /\ memoryCache' = IF HasMatches THEN ClearAll(memoryCache)
                      ELSE ClearFour(memoryCache)
    /\ sent' = Response("/cache/clear", "", 200,
                        [message |-> "Caché limpiada"], FALSE)
    /\ preClear' = [handlers |-> {h \in Handlers : handler[h].pc = "resume"},
                    keys     |-> {}]
    /\ UNCHANGED <<timeVars, syncVars, rev, API_KEY, orphaned, db, opgg, handler>>

(***************************************************************************)
(* GET /ranking.                                                           *)
(***************************************************************************)
\* memoryCache.ranking && memoryCache.rankingTimestamp &&
\* now - memoryCache.rankingTimestamp < CACHE_DURATION, with `now` read at t
FreshAtDuration(t) ==
    /\ Truthy(memoryCache.ranking)
    /\ Truthy(memoryCache.rankingTimestamp)
    /\ Ms(t - memoryCache.rankingTimestamp[1]) <= CACHE_DURATION

RankingFresh(t) ==
    /\ Truthy(memoryCache.ranking)
    /\ Truthy(memoryCache.rankingTimestamp)
    /\ Ms(t - memoryCache.rankingTimestamp[1]) < CACHE_DURATION

\* const now = Date.now(); the freshness check; on a miss the browser launch
RankingStart(h) ==
    /\ HasRanking
    /\ handler[h].pc = "idle"
    /\ IF RankingFresh(now)
       THEN /\ sent' = Response("/ranking", "", 200,
                                [rows |-> memoryCache.ranking[1]], TRUE)
            /\ handler' = handler
       ELSE /\ sent' = NoResponse
            /\ handler' = [handler EXCEPT ![h] =
                   [IdleHandler EXCEPT !.pc = "scrape", !.route = "/ranking",
                                       !.now = now]]
    /\ UNCHANGED <<timeVars, syncVars, rev, API_KEY, orphaned, preClear, db, opgg, memoryCache>>

\* launch, newContext, newPage, goto, waitForSelector and page.evaluate
\* succeed: rankingData is in hand, browser.close() is awaited
RankingScraped(h) ==
    /\ handler[h].pc = "scrape"
    /\ handler' = [handler EXCEPT ![h].pc = "close", ![h].result = Some(opgg)]
    /\ sent' = NoResponse
    /\ UNCHANGED <<timeVars, syncVars, rev, API_KEY, orphaned, preClear, db, opgg, memoryCache>>

\* the awaited calls of the scrape, in order; browser.close() follows them
RankingSteps == {"launch", "newContext", "newPage", "goto", "waitForSelector",
                 "evaluate"}

\* One of the awaited calls rejects: catch (error) { res.status(500)... }.
\* There is no finally: when the call that failed came after the launch,
\* `browser` goes out of scope with its session open.
RankingFail(h, step) ==
    /\ \/ handler[h].pc = "scrape" /\ step \in RankingSteps
       \/ handler[h].pc = "close" /\ step = "close"
    /\ handler' = [handler EXCEPT ![h] = IdleHandler]
    /\ orphaned' = (orphaned \/ step \notin {"launch", "close"})
    /\ sent' = Response("/ranking", "", 500, InternalError, FALSE)
    /\ UNCHANGED <<timeVars, syncVars, rev, API_KEY, preClear, db, opgg, memoryCache>>

\* after browser.close(): the sort, the two assignments and the response
RankingPut(h) ==
    LET sortedRankingData == SortByLp(handler[h].result[1])
    IN  /\ handler[h].pc = "close"
        /\ memoryCache' = [memoryCache EXCEPT
                              !.ranking = Some(sortedRankingData),
                              !.rankingTimestamp = Some(handler[h].now)]
        /\ handler' = [handler EXCEPT ![h] = IdleHandler]
        /\ sent' = Response("/ranking", "", 200,
                            [rows |-> sortedRankingData], FALSE)
        /\ UNCHANGED <<timeVars, syncVars, rev, API_KEY, orphaned, preClear, db, opgg>>

(***************************************************************************)
(* GET /calendar/:id (server.js).  Of the event's fields a 200 carries the *)
(* UID's match id and DTSTART.                                             *)
(***************************************************************************)
\* A lookup that takes the first record of the listing, whatever its id.
findFirst(items, id) ==
    IF items = <<>> THEN Absent ELSE Some(items[1])

\* items.find((m) => m.id === id): Absent when it returns undefined
find(items, id) ==
    LET hits == {k \in 1 .. Len(items) : items[k].id = id}
    IN  IF hits = {} THEN Absent
        ELSE Some(items[CHOOSE k \in hits : \A j \in hits : k <= j])

\* memoryCache.matches.find(...) and what follows it, on the cached value;
\* on a value that is no array the call throws and the catch answers
CalendarAnswer(id, cached, hit) ==
    IF ~cached.array
    THEN Response("/calendar/:id", id, 500,
                  [error |-> "Error interno al generar archivo ICS"], hit)
    ELSE IF find(cached.items, id) # Absent
    THEN LET match == find(cached.items, id)[1]
         IN  IF start(match.date) # Absent
             THEN Response("/calendar/:id", id, 200,
                           [ics |-> match.id,
                            dtstart |-> IdStamp(start(match.date)[1])], hit)
             ELSE Response("/calendar/:id", id, 400,
                           [error |-> "Fecha inválida"], hit)
    ELSE Response("/calendar/:id", id, 404,
                  [error |-> "Partido no encontrado"], hit)

\* What the fetch of https://g2historyapi.fly.dev/matches/upcoming resolves
\* with when that deployment reads the store this process writes: the
\* listing when its requireApiKey lets the request through, its 401 if not.
Upstream(admits) ==
    IF admits
    THEN [ok |-> TRUE, status |-> 200,
          data |-> JsonArray(SelectAll(matches_upcoming))]
    ELSE [ok |-> FALSE, status |-> 401, data |-> JsonObject]

\* if (!memoryCache.matches) fetch(...), else straight to the lookup
CalendarStart(h, id) ==
    /\ HasMatches
    /\ handler[h].pc = "idle"
    /\ IF Truthy(memoryCache.matches)
       THEN /\ sent' = CalendarAnswer(id, memoryCache.matches[1], TRUE)
            /\ handler' = handler
       ELSE /\ sent' = NoResponse
            /\ handler' = [handler EXCEPT ![h] =
                   [IdleHandler EXCEPT !.pc = "fetch", !.route = "/calendar/:id",
                                       !.key = id]]
    /\ UNCHANGED <<timeVars, syncVars, rev, API_KEY, orphaned, preClear, db, opgg, memoryCache>>

\* the fetch and response.json() have resolved with `answer`
CalendarFetched(h, answer) ==
    LET id == handler[h].key
    IN  /\ handler[h].pc = "fetch"
        /\ handler' = [handler EXCEPT ![h] = IdleHandler]
        /\ IF rev = "server.js:809" /\ ~answer.ok
           THEN /\ memoryCache' = memoryCache
                /\ sent' = Response("/calendar/:id", id, answer.status,
                                    [error |-> statusText(answer)], FALSE)
           ELSE IF rev = "server.js:809" /\ ~answer.data.array
           THEN /\ memoryCache' = memoryCache
                /\ sent' = Response("/calendar/:id", id, 500,
                       [error |-> "Formato inesperado de datos de partidos"], FALSE)
           ELSE /\ memoryCache' = [memoryCache EXCEPT
                                      !.matches = Some(answer.data),
                                      !.matchesTimestamp = Some(now)]
                /\ sent' = CalendarAnswer(id, answer.data, FALSE)
        /\ UNCHANGED <<timeVars, syncVars, rev, API_KEY, orphaned, preClear, db, opgg>>

\* the fetch or response.json() rejects
CalendarFail(h) ==
    /\ handler[h].pc = "fetch"
    /\ handler' = [handler EXCEPT ![h] = IdleHandler]
    /\ sent' = Response("/calendar/:id", handler[h].key, 500,
                        [error |-> "Error interno al generar archivo ICS"], FALSE)
    /\ UNCHANGED <<timeVars, syncVars, rev, API_KEY, orphaned, preClear, db, opgg, memoryCache>>

(***************************************************************************)
(* The environment of the cache: the store and the leaderboard change,     *)
(* the clock advances.                                                     *)
(***************************************************************************)
DbEdit(d) ==
    /\ d # db
    /\ db' = d
    /\ sent' = NoResponse
    /\ UNCHANGED <<timeVars, syncVars, rev, API_KEY, orphaned, preClear, opgg, memoryCache, handler>>

OpggEdit(page) ==
    /\ page # opgg
    /\ opgg' = page
    /\ sent' = NoResponse
    /\ UNCHANGED <<timeVars, syncVars, rev, API_KEY, orphaned, preClear, db, memoryCache, handler>>

\* clock advances, in minutes
SyncTicks == {1, 4 * MinutesPerDay}
DayTicks == {MinutesPerDay}
RankingTicks == {29, 30}
HourTicks == {60}

Tick(d) ==
    /\ ticks < MaxTicks
    /\ now' = now + d
    /\ ticks' = ticks + 1
    /\ sent' = NoResponse
    /\ UNCHANGED <<syncVars, rev, API_KEY, orphaned, preClear, db, opgg, memoryCache, handler>>

\* a day passes, for the entries that no passing of time expires
Day(d) == ticks < MaxDays /\ Tick(d)

(***************************************************************************)
(* A request as it arrives, with its Authorization header: the middleware  *)
(* chain of the revision, then the route's handler.  app.use(requireApiKey)*)
(* guards the routes registered after it: every route modelled here in the *)
(* first revision of server.js, every one but POST /matches/sync-dpm in    *)
(* the second, none in part_000 and part_001, which have no middleware.    *)
(***************************************************************************)
Protected(route) ==
    CASE rev = "server.js:1"   -> TRUE
      [] rev = "server.js:809" -> route # "/matches/sync-dpm"
      [] OTHER                 -> FALSE

\* return res.status(401).json({ error: "Unauthorized" })
Unauthorized(route, key) ==
    /\ sent' = Response(route, key, 401, [error |-> "Unauthorized"], FALSE)
    /\ UNCHANGED <<timeVars, syncVars, rev, API_KEY, orphaned, preClear, db, opgg,
                   memoryCache, handler>>

\* the request reaches the route's handler
Admitted(route, auth) == Protected(route) => requireApiKey(auth, API_KEY)

ApiGet(h, route, key, auth) ==
    IF Admitted(route, auth) THEN GetStart(h, route, key)
    ELSE key \in Params(route) /\ Unauthorized(route, key)

ApiClear(auth) ==
    IF Admitted("/cache/clear", auth) THEN CacheClear
    ELSE Unauthorized("/cache/clear", "")

ApiRanking(h, auth) ==
    IF Admitted("/ranking", auth) THEN RankingStart(h)
    ELSE HasRanking /\ Unauthorized("/ranking", "")

ApiCalendar(h, id, auth) ==
    IF Admitted("/calendar/:id", auth) THEN CalendarStart(h, id)
    ELSE HasMatches /\ Unauthorized("/calendar/:id", id)

ApiSync(p, e, auth) ==
    IF Admitted(e, auth) THEN SyncStart(p, e)
    ELSE Unauthorized(e, "")

ApiUpcoming(auth) ==
    IF Admitted("/matches/upcoming", auth) THEN GetUpcoming
    ELSE Unauthorized("/matches/upcoming", "")

\* request p has carried out its DELETE or an INSERT in this step
Wrote(p) ==
    \/ sync'[p].deleted /\ ~sync[p].deleted
    \/ sync'[p].i > sync[p].i

(***************************************************************************)
(* The server has started: the table is empty, nothing is cached, no       *)
(* request is in flight.                                                   *)
(***************************************************************************)
Started ==
    /\ now = DateUTC(2025, 12, 30, 12, 0)
    /\ ticks = 0
    /\ matches_upcoming = <<>>
    /\ leftover = FALSE
    /\ liquipedia = LiquipediaA
    /\ dpm = DpmA
    /\ sync = [p \in SyncSlots |-> IdleSync]
    /\ upcoming = NoUpcoming
    /\ lastRun = Absent
    /\ orphaned = FALSE
    /\ preClear = NoneHeld
    /\ db = DbA
    /\ opgg = OpggA
    /\ memoryCache = EmptyCache
    /\ handler = [h \in Handlers |-> IdleHandler]
    /\ sent = NoResponse

(***************************************************************************)
(* SyncSpec: both endpoints, two requests at a time, the Liquipedia page   *)
(* changing upstream.                                                      *)
(***************************************************************************)
SyncInit == Started /\ rev = "server.js:809" /\ API_KEY = Some("secret")

SyncNext ==
    \/ \E p \in SyncSlots, e \in Endpoints : SyncStart(p, e)
    \/ \E p \in SyncSlots, e \in Endpoints : SyncLaunchFail(p, e)
    \/ \E p \in SyncSlots : SyncFetch(p)
    \/ \E p \in SyncSlots, step \in FetchSteps : SyncFetchFail(p, step)
    \/ \E p \in SyncSlots : SyncDelete(p)
    \/ \E p \in SyncSlots : SyncDeleteFail(p)
    \/ \E p \in SyncSlots : SyncInsert(p)
    \/ \E p \in SyncSlots : SyncInsertFail(p)
    \/ \E p \in SyncSlots : SyncRespond(p)
    \/ \E p \in SyncSlots : SyncFinally(p)
    \/ Crash
    \/ GetUpcoming
    \/ GetUpcomingFail
    \/ \E page \in LiquipediaPages : LiquipediaEdit(page)

SyncSpec == SyncInit /\ [][SyncNext]_vars

(***************************************************************************)
(* ResyncSpec: one request at a time, run after run, both pages changing   *)
(* upstream and the clock advancing between and during the runs.           *)
(***************************************************************************)
ResyncNext ==
    \/ \E e \in Endpoints : SyncStart(1, e)
    \/ SyncFetch(1)
    \/ \E step \in FetchSteps : SyncFetchFail(1, step)
    \/ SyncDelete(1)
    \/ SyncInsert(1)
    \/ SyncInsertFail(1)
    \/ SyncRespond(1)
    \/ SyncFinally(1)
    \/ \E page \in LiquipediaPages : LiquipediaEdit(page)
    \/ \E page \in DpmPages : DpmEdit(page)
    \/ \E d \in SyncTicks : Tick(d)

ResyncSpec == SyncInit /\ [][ResyncNext]_vars

(***************************************************************************)
(* CacheSpec: the four resources that stay cached until the cache is       *)
(* cleared, two requests at a time, the store changing, days passing.      *)
(* Their handlers are the same text in every revision.                     *)
(***************************************************************************)
CacheInit == Started /\ rev = "server.js:1" /\ API_KEY = Some("secret")

CacheNext ==
    \/ \E h \in Handlers, route \in Routes :
          \E key \in Params(route) : GetStart(h, route, key)
    \/ \E h \in Handlers, err \in StoreErrors : DbReject(h, err)
    \/ \E h \in Handlers : GetResume(h)
    \/ CacheClear
    \/ \E d \in Dbs : DbEdit(d)
    \/ \E d \in DayTicks : Day(d)

CacheSpec == CacheInit /\ [][CacheNext]_vars

(***************************************************************************)
(* RankingSpec: GET /ranking and POST /cache/clear in every revision, two   *)
(* requests at a time, the leaderboard changing, the clock advancing       *)
(* around the cache durations.                                             *)
(***************************************************************************)
RankingNext ==
    \/ \E h \in Handlers : RankingStart(h)
    \/ \E h \in Handlers : RankingScraped(h)
    \/ \E h \in Handlers, step \in RankingSteps \cup {"close"} : RankingFail(h, step)
    \/ \E h \in Handlers : RankingPut(h)
    \/ CacheClear
    \/ \E page \in OpggPages : OpggEdit(page)
    \/ \E d \in RankingTicks : Tick(d)

RankingInit == Started /\ rev \in Revisions /\ API_KEY = Some("secret")

RankingSpec == RankingInit /\ [][RankingNext]_vars

(***************************************************************************)
(* AuthSpec: requests to the cached routes, /ranking and /cache/clear with *)
(* any Authorization header, under any setting of API_KEY, one request at  *)
(* a time.                                                                 *)
(***************************************************************************)
AuthInit ==
    Started /\ rev \in {"server.js:1", "server.js:809"} /\ API_KEY \in ApiKeys

AuthNext ==
    \/ \E route \in Routes, auth \in Authorizations :
          \E key \in Params(route) : ApiGet(1, route, key, auth)
    \/ \E err \in StoreErrors : DbReject(1, err)
    \/ GetResume(1)
    \/ \E auth \in Authorizations : ApiClear(auth)
    \/ \E auth \in Authorizations : ApiRanking(1, auth)
    \/ RankingScraped(1)
    \/ \E step \in RankingSteps \cup {"close"} : RankingFail(1, step)
    \/ RankingPut(1)

AuthSpec == AuthInit /\ [][AuthNext]_vars

(***************************************************************************)
(* SyncAuthSpec: requests to the sync endpoints and to the listing with    *)
(* any Authorization header, under any setting of API_KEY, one sync at a   *)
(* time, in the second revision of server.js.                              *)
(***************************************************************************)
SyncAuthInit == Started /\ rev = "server.js:809" /\ API_KEY \in ApiKeys

SyncAuthNext ==
    \/ \E e \in Endpoints, auth \in Authorizations : ApiSync(1, e, auth)
    \/ SyncFetch(1)
    \/ \E step \in FetchSteps : SyncFetchFail(1, step)
    \/ SyncDelete(1)
    \/ SyncInsert(1)
    \/ SyncRespond(1)
    \/ SyncFinally(1)
    \/ \E auth \in Authorizations : ApiUpcoming(auth)

SyncAuthSpec == SyncAuthInit /\ [][SyncAuthNext]_vars

(***************************************************************************)
(* ErrorSpec: the handlers that read the store, scrape or fetch, with      *)
(* every awaited call able to fail, one request at a time, in the two      *)
(* revisions of server.js and in the uncached revision of part_003.        *)
(***************************************************************************)
ErrorInit ==
    /\ Started
    /\ rev \in {"server.js:1", "server.js:809", "part_003:139"}
    /\ API_KEY = Some("secret")

ErrorNext ==
    \/ \E route \in Routes : \E key \in Params(route) : GetStart(1, route, key)
    \/ \E err \in StoreErrors : DbReject(1, err)
    \/ GetResume(1)
    \/ RankingStart(1)
    \/ RankingScraped(1)
    \/ \E step \in RankingSteps \cup {"close"} : RankingFail(1, step)
    \/ RankingPut(1)
    \/ \E id \in CalendarIds : CalendarStart(1, id)
    \/ \E answer \in ProductionAnswers : CalendarFetched(1, answer)
    \/ CalendarFail(1)

ErrorSpec == ErrorInit /\ [][ErrorNext]_vars

(***************************************************************************)
(* RefreshSpec: GET /players/year/:year and GET /ranking, two requests at  *)
(* a time, every awaited call able to fail, the leaderboard changing, the  *)
(* clock advancing around the cache durations.                             *)
(***************************************************************************)
RefreshInit ==
    Started /\ rev \in {"part_000", "server.js:1"} /\ API_KEY = Some("secret")

RefreshNext ==
    \/ \E h \in Handlers, key \in Years : GetStart(h, "/players/year/:year", key)
    \/ \E h \in Handlers, err \in StoreErrors : DbReject(h, err)
    \/ \E h \in Handlers : GetResume(h)
    \/ \E h \in Handlers : RankingStart(h)
    \/ \E h \in Handlers : RankingScraped(h)
    \/ \E h \in Handlers, step \in RankingSteps \cup {"close"} : RankingFail(h, step)
    \/ \E h \in Handlers : RankingPut(h)
    \/ \E page \in OpggPages : OpggEdit(page)
    \/ \E d \in RankingTicks : Tick(d)

RefreshSpec == RefreshInit /\ [][RefreshNext]_vars

(***************************************************************************)
(* EntrySpec: the two timestamped entries, ranking and matches: GET        *)
(* /ranking, GET /calendar/:id and POST /cache/clear, two requests at a    *)
(* time, the clock advancing by hours.                                     *)
(***************************************************************************)
EntryInit == Started /\ rev \in Revisions /\ API_KEY = Some("secret")

EntryNext ==
    \/ \E h \in Handlers : RankingStart(h)
    \/ \E h \in Handlers : RankingScraped(h)
    \/ \E h \in Handlers, step \in RankingSteps \cup {"close"} : RankingFail(h, step)
    \/ \E h \in Handlers : RankingPut(h)
    \/ \E h \in Handlers, id \in CalendarIds : CalendarStart(h, id)
    \/ \E h \in Handlers, answer \in ProductionAnswers : CalendarFetched(h, answer)
    \/ \E h \in Handlers : CalendarFail(h)
    \/ CacheClear
    \/ \E d \in HourTicks : Tick(d)

EntrySpec == EntryInit /\ [][EntryNext]_vars

(***************************************************************************)
(* CalendarSpec: one sync request at a time, the listing, and the calendar *)
(* of both revisions of server.js reading the store through the deployed   *)
(* listing.  POST /matches/sync-dpm exists in the second revision only.    *)
(***************************************************************************)
HasEndpoint(e) == e = "/matches/sync-dpm" => rev = "server.js:809"

CalendarInit ==
    Started /\ rev \in {"server.js:1", "server.js:809"} /\ API_KEY = Some("secret")

CalendarNext ==
    \/ \E e \in Endpoints : HasEndpoint(e) /\ SyncStart(1, e)
    \/ SyncFetch(1)
    \/ SyncDelete(1)
    \/ SyncInsert(1)
    \/ SyncRespond(1)
    \/ SyncFinally(1)
    \/ GetUpcoming
    \/ \E id \in CalendarIds : CalendarStart(1, id)
    \/ \E admits \in BOOLEAN : CalendarFetched(1, Upstream(admits))
    \/ CalendarFail(1)
    \/ CacheClear
    \/ \E page \in LiquipediaPages : LiquipediaEdit(page)

CalendarSpec == CalendarInit /\ [][CalendarNext]_vars

(***************************************************************************)
(* SortSpec: GET /ranking in the revisions that have it, one request at a  *)
(* time, the leaderboard changing and at times showing no target player.   *)
(***************************************************************************)
SortInit ==
    /\ Started
    /\ rev \in {"part_000", "server.js:1", "server.js:809"}
    /\ API_KEY = Some("secret")

SortNext ==
    \/ RankingStart(1)
    \/ RankingScraped(1)
    \/ \E step \in RankingSteps \cup {"close"} : RankingFail(1, step)
    \/ RankingPut(1)
    \/ CacheClear
    \/ \E page \in LeaderboardPages : OpggEdit(page)
    \/ \E d \in RankingTicks : Tick(d)

SortSpec == SortInit /\ [][SortNext]_vars

(***************************************************************************)
(* RaceSpec: two clients of the cached routes and of GET /ranking in       *)
(* server.js, each handler stopping at its awaits, the cache cleared and   *)
(* the store and the leaderboard changing in between.                      *)
(***************************************************************************)
RaceRoutes == {"/players/year/:year"}

RaceInit ==
    Started /\ rev \in {"server.js:1", "server.js:809"} /\ API_KEY = Some("secret")

RaceNext ==
    \/ \E h \in Handlers, route \in RaceRoutes :
          \E key \in Params(route) : GetStart(h, route, key)
    \/ \E h \in Handlers : GetSelect(h)
    \/ \E h \in Handlers : GetContinue(h)
    \/ \E h \in Handlers : RankingStart(h)
    \/ \E h \in Handlers : RankingScraped(h)
    \/ \E h \in Handlers : RankingPut(h)
    \/ CacheClear
    \/ \E d \in Dbs : DbEdit(d)
    \/ \E page \in OpggPages : OpggEdit(page)
    \/ \E d \in RankingTicks : Tick(d)

RaceSpec == RaceInit /\ [][RaceNext]_vars

(***************************************************************************)
(* LiveSyncSpec: two sync requests, every awaited browser call and store   *)
(* call of a request in flight returning or failing in the end.  The event *)
(* loop runs the continuation of every settled promise, which is weak      *)
(* fairness of the steps of each request; the process is not stopped.      *)
(***************************************************************************)
SyncStep(p) ==
    \/ \E step \in FetchSteps : SyncFetchFail(p, step)
    \/ SyncFetch(p)
    \/ SyncDelete(p)
    \/ SyncDeleteFail(p)
    \/ SyncInsert(p)
    \/ SyncInsertFail(p)
    \/ SyncRespond(p)
    \/ SyncFinally(p)

LiveSyncNext ==
    \/ \E p \in SyncSlots, e \in Endpoints : SyncStart(p, e)
    \/ \E p \in SyncSlots, e \in Endpoints : SyncLaunchFail(p, e)
    \/ \E p \in SyncSlots : SyncStep(p)

LiveSyncSpec ==
    /\ SyncInit
    /\ [][LiveSyncNext]_vars
    /\ \A p \in SyncSlots : WF_vars(SyncStep(p))

(***************************************************************************)
(* IdSpec: one sync request at a time on any of the pages, among them the  *)
(* page with two undated matches against the same opponent.                *)
(***************************************************************************)
IdNext ==
    \/ \E e \in Endpoints : SyncStart(1, e)
    \/ SyncFetch(1)
    \/ SyncDelete(1)
    \/ SyncInsert(1)
    \/ SyncRespond(1)
    \/ SyncFinally(1)
    \/ \E page \in BracketPages : LiquipediaEdit(page)
    \/ \E page \in DpmPages : DpmEdit(page)

IdSpec == SyncInit /\ [][IdNext]_vars

(***************************************************************************)
(* ResponseSpec: one request at a time, a sync or a request of             *)
(* /players/:identifier, /ranking or /calendar/:id in server.js, with      *)
(* every failure of an awaited call, the close in the finally block        *)
(* included.                                                               *)
(***************************************************************************)
ResponseInit ==
    Started /\ rev \in {"server.js:1", "server.js:809"} /\ API_KEY = Some("secret")

Quiet == ~InFlight(1) /\ handler[1].pc = "idle"

ResponseNext ==
    \/ \E e \in Endpoints : Quiet /\ HasEndpoint(e) /\ SyncStart(1, e)
    \/ \E e \in Endpoints : Quiet /\ HasEndpoint(e) /\ SyncLaunchFail(1, e)
    \/ SyncFetch(1)
    \/ \E step \in FetchSteps : SyncFetchFail(1, step)
    \/ SyncDelete(1)
    \/ SyncDeleteFail(1)
    \/ SyncInsert(1)
    \/ SyncInsertFail(1)
    \/ SyncRespond(1)
    \/ SyncFinally(1)
    \/ SyncCloseFail(1)
    \/ \E key \in {"caps", "jankos"} :
          Quiet /\ GetStart(1, "/players/:identifier", key)
    \/ \E err \in StoreErrors : DbReject(1, err)
    \/ GetResume(1)
    \/ Quiet /\ RankingStart(1)
    \/ RankingScraped(1)
    \/ \E step \in RankingSteps \cup {"close"} : RankingFail(1, step)
    \/ RankingPut(1)
    \/ \E id \in CalendarIds : Quiet /\ CalendarStart(1, id)
    \/ \E admits \in BOOLEAN : CalendarFetched(1, Upstream(admits))
    \/ CalendarFail(1)

ResponseSpec == ResponseInit /\ [][ResponseNext]_vars

(***************************************************************************)
(* WriteSpec: every revision, its reads of years and players, its writes   *)
(* to the store, one request at a time; nothing but the API touches the    *)
(* store.                                                                  *)
(***************************************************************************)
WriteInit ==
    /\ Started
    /\ rev \in Revisions \cup {"part_003:139"}
    /\ API_KEY = Some("secret")

WriteNext ==
    \/ \E route \in Routes : \E key \in Params(route) : GetStart(1, route, key)
    \/ \E err \in StoreErrors : DbReject(1, err)
    \/ GetResume(1)
    \/ \E body \in PlayerBodies : PostPlayers(body)
    \/ \E err \in StoreErrors : PostPlayersFail(err)
    \/ HasCache /\ CacheClear
    \/ \E e \in Endpoints : HasMatches /\ HasEndpoint(e) /\ SyncStart(1, e)
    \/ SyncFetch(1)
    \/ \E step \in FetchSteps : SyncFetchFail(1, step)
    \/ SyncDelete(1)
    \/ SyncInsert(1)
    \/ SyncInsertFail(1)
    \/ SyncRespond(1)
    \/ SyncFinally(1)
    \/ HasMatches /\ GetUpcoming

WriteSpec == WriteInit /\ [][WriteNext]_vars

(***************************************************************************)
(* Properties of the sync endpoints.                                       *)
(***************************************************************************)
RespondedOk(p) ==
    /\ sync[p].pc = "finally"
    /\ sync[p].res # Absent
    /\ sync[p].res # Error500

\* C1: once a sync that no other sync overlapped has answered
\* {status: "ok", updated: n}, matches_upcoming holds exactly the rows it
\* fetched, n is the number of rows in the table, and a GET /matches/upcoming
\* answered since returns those rows.
C1_SyncReplaces ==
    \A p \in SyncSlots :
        (RespondedOk(p) /\ sync[p].alone) =>
            /\ matches_upcoming = sync[p].matches
            /\ sync[p].res[1].updated = Len(matches_upcoming)
            /\ upcoming.status = 200 => SameRows(upcoming.rows, sync[p].matches)

\* a sync has replaced a non-empty, different table and the listing was read
C1_Witness ==
    \E p \in SyncSlots :
        /\ RespondedOk(p) /\ sync[p].alone
        /\ sync[p].prev # <<>>
        /\ sync[p].matches # <<>>
        /\ ~SameRows(sync[p].prev, sync[p].matches)
        /\ upcoming.status = 200

FetchFailures == FetchSteps \cup {"launch"}

C2_State ==
    \A p \in SyncSlots :
        /\ sync[p].err \in FetchFailures =>
              /\ sync[p].pc = "finally"
              /\ sync[p].res = Error500
              /\ ~sync[p].fetched
              /\ ~sync[p].deleted
              /\ sync[p].i = 0
        /\ sync[p].deleted => sync[p].fetched

C2_Step ==
    /\ \A p \in SyncSlots :
          (sync'[p].deleted /\ ~sync[p].deleted) =>
              sync[p].fetched /\ sync[p].pc = "delete"
    /\ \A p \in SyncSlots :
          (sync[p].pc \in {"idle", "fetch"} /\ sync'[p].pc = "finally") =>
              matches_upcoming' = matches_upcoming
    /\ matches_upcoming' # matches_upcoming => \E p \in SyncSlots : Wrote(p)

\* C2: a sync whose fetch failed (launch, navigation, wait-for-selector,
\* extraction) has answered 500 and has issued neither the DELETE nor an
\* INSERT, the failing step leaves matches_upcoming as it was, the table only
\* changes by a DELETE or an INSERT, and a DELETE is only issued by a handler
\* whose fetch has completed.
C2_FetchFailureKeepsTable == []C2_State /\ [][C2_Step]_vars

\* a fetch has failed over a table that holds rows
C2_Witness ==
    \E p \in SyncSlots :
        /\ sync[p].err \in FetchSteps
        /\ sync[p].alone
        /\ matches_upcoming # <<>>

\* C3: a GET /matches/upcoming answered between a sync's DELETE and its last
\* INSERT returns either the set persisted before the sync or the newly
\* fetched set (stated for a sync that no other sync overlaps).
C3_AtomicForReaders ==
    \A p \in SyncSlots :
        (sync[p].pc = "insert" /\ sync[p].alone /\ upcoming.status = 200) =>
            \/ SameRows(upcoming.rows, sync[p].prev)
            \/ SameRows(upcoming.rows, sync[p].matches)

\* C4: once two overlapping syncs have both answered, one of them with ok,
\* the table is the fetched output of one of them.
C4_NeverMixed ==
    (/\ \A p \in SyncSlots : sync[p].pc = "finally" /\ ~sync[p].alone
     /\ \E p \in SyncSlots : RespondedOk(p)) =>
        \E p \in SyncSlots :
            sync[p].fetched /\ SameRows(matches_upcoming, sync[p].matches)

\* the run before this one: the same endpoint answered ok over the same page,
\* and nothing wrote the table in between
RanTwice(p) ==
    /\ RespondedOk(p)
    /\ sync[p].before # Absent
    /\ sync[p].before[1].endpoint = sync[p].endpoint
    /\ sync[p].before[1].src = sync[p].src

InWindow(ts, t) == ts >= nowInTz(t) - WeekMinutes /\ ts <= nowInTz(t)

\* the two clock readings give every card the same record and the same side
\* of the 7-day window
SameClockView(raw, t1, t2) ==
    \A k \in 1..Len(raw) :
        /\ DpmRecord(raw[k], t1) = DpmRecord(raw[k], t2)
        /\ InWindow(DpmRecord(raw[k], t1).dtMadrid, t1)
             = InWindow(DpmRecord(raw[k], t2).dtMadrid, t2)

C6_RetryReplacesLeftover ==
    \A p \in SyncSlots :
        (RespondedOk(p) /\ sync[p].alone /\ sync[p].prevLeftover) =>
            matches_upcoming = sync[p].matches

\* the retry found rows left behind that are not the set it fetched
C6_Witness ==
    \E p \in SyncSlots :
        /\ RespondedOk(p) /\ sync[p].alone /\ sync[p].prevLeftover
        /\ sync[p].prev # <<>>
        /\ ~IsPrefix(sync[p].prev, sync[p].matches)

PersistFailures == {"delete", "insert"}

\* C7: a sync whose DELETE or INSERT failed had fetched, has answered 500
\* and is past its loop (no further INSERT, no ok), and, when its DELETE had
\* succeeded and no other sync overlapped it, the table is the prefix of the
\* fetched rows it had inserted.
C7_PersistFailure ==
    \A p \in SyncSlots :
        sync[p].err \in PersistFailures =>
            /\ sync[p].fetched
            /\ sync[p].pc = "finally"
            /\ sync[p].res = Error500
            /\ sync[p].err = "delete" => ~sync[p].deleted /\ sync[p].i = 0
            /\ sync[p].err = "insert" =>
                  sync[p].deleted /\ sync[p].i < Len(sync[p].matches)
            /\ (sync[p].deleted /\ sync[p].alone) =>
                  matches_upcoming = SubSeq(sync[p].matches, 1, sync[p].i)

\* an INSERT failed after a first row went in, over a table that held rows
C7_Witness ==
    \E p \in SyncSlots :
        /\ sync[p].err = "insert"
        /\ sync[p].alone
        /\ sync[p].i > 0
        /\ sync[p].prev # <<>>

(***************************************************************************)
(* Properties of the cache.                                                *)
(***************************************************************************)
CacheKeys == UNION {{<<route, key>> : key \in Params(route)} : route \in Routes}

\* a request that finds an entry under its key is answered 200 with that
\* entry, and only a request that finds none sends a query to the store
C8_HitStep ==
    /\ \A h \in Handlers :
          (handler[h].pc = "idle" /\ handler'[h].pc = "execute") =>
              Entry(handler'[h].route, handler'[h].key) = Absent
    /\ (sent'.hit /\ sent'.route \in Routes) =>
          /\ Entry(sent'.route, sent'.key) # Absent
          /\ sent'.status = 200
          /\ sent'.body = Body(sent'.route, Entry(sent'.route, sent'.key)[1])
          /\ UNCHANGED <<memoryCache, handler>>

\* C8 as stated: a request that finds an entry under its key is answered 200
\* with it and sends no query, and a stored entry stays as it is until
\* POST /cache/clear, so that every later response carries the same payload.
C8_SamePayloadUntilCleared ==
    [][/\ C8_HitStep
       /\ \A k \in CacheKeys :
             (Entry(k[1], k[2]) # Absent /\ sent'.route # "/cache/clear") =>
                 EntryOf(memoryCache', k[1], k[2]) = Entry(k[1], k[2])]_vars

\* request h, which had found no entry under its key, stores its own result
StoresOwnResult(h, route, key) ==
    /\ handler[h].pc = "execute"
    /\ handler[h].route = route
    /\ handler[h].key = key
    /\ handler'[h].pc = "idle"
    /\ sent'.status = 200 /\ ~sent'.hit
    /\ sent'.route = route /\ sent'.key = key
    /\ sent'.body = Body(route, EntryOf(memoryCache', route, key)[1])

\* C8, amended: a request that finds an entry under its key is answered 200
\* with the entry as it is then stored and sends no query, whatever the
\* clock and the store; a stored entry changes only by POST /cache/clear or
\* when a request for that same key that had found no entry before the entry
\* was stored completes and stores its own result over it.
C8_StoredPayloadUntilCleared ==
    [][/\ C8_HitStep
       /\ \A k \in CacheKeys :
             (/\ Entry(k[1], k[2]) # Absent
              /\ EntryOf(memoryCache', k[1], k[2]) # Entry(k[1], k[2])) =>
                 \/ /\ sent'.route = "/cache/clear"
                    /\ EntryOf(memoryCache', k[1], k[2]) = Absent
                 \/ \E h \in Handlers : StoresOwnResult(h, k[1], k[2])]_vars

\* days later, GET /players/caps is answered from the cache with a row the
\* store no longer holds
C8_Witness ==
    /\ sent.hit
    /\ sent.route = "/players/:identifier"
    /\ sent.key = "caps"
    /\ sent.status = 200
    /\ ticks > 0
    /\ sent.body.row # Query("/players/:identifier", "caps")[1]

\* a ranking entry exists and is younger than CACHE_DURATION
C9_Fresh ==
    /\ memoryCache.ranking # Absent
    /\ memoryCache.rankingTimestamp # Absent
    /\ (now - memoryCache.rankingTimestamp[1]) * 60 * 1000 < CACHE_DURATION

C9_Step ==
    /\ (sent'.hit /\ sent'.route = "/ranking") =>
          /\ C9_Fresh
          /\ sent'.status = 200
          /\ sent'.body = [rows |-> memoryCache.ranking[1]]
          /\ UNCHANGED <<memoryCache, handler>>
    /\ \A h \in Handlers :
          (handler[h].pc = "idle" /\ handler'[h].pc = "scrape") =>
              /\ ~C9_Fresh
              /\ handler'[h].now = now
              /\ memoryCache' = memoryCache
    /\ (\/ memoryCache'.ranking # memoryCache.ranking
        \/ memoryCache'.rankingTimestamp # memoryCache.rankingTimestamp) =>
          \/ sent'.route = "/cache/clear"
          \/ \E h \in Handlers :
                /\ handler[h].pc = "close" /\ handler'[h].pc = "idle"
                /\ sent'.route = "/ranking" /\ sent'.status = 200
                /\ memoryCache'.ranking = Some(sent'.body.rows)
                /\ memoryCache'.rankingTimestamp = Some(handler[h].now)

\* C9: GET /ranking answers from the cache, launching no scrape, exactly
\* when a ranking entry exists and now - rankingTimestamp < CACHE_DURATION;
\* otherwise it starts a scrape and leaves the entry stored, and the entry
\* changes only when a scrape has succeeded (or by POST /cache/clear).
C9_RankingFreshness == [][C9_Step]_vars

\* a scrape is under way for a request that found the entry exactly
\* CACHE_DURATION old, and the entry is still stored
C9_Witness ==
    \E h \in Handlers :
        /\ handler[h].pc = "scrape"
        /\ memoryCache.ranking # Absent
        /\ memoryCache.rankingTimestamp # Absent
        /\ (handler[h].now - memoryCache.rankingTimestamp[1]) * 60 * 1000
              = CACHE_DURATION

\* C10: after POST /cache/clear has answered, the next request finds no
\* entry: it is not answered from the cache.
C10_ClearDropsEveryEntry ==
    [][sent.route = "/cache/clear" => ~sent'.hit]_vars

(***************************************************************************)
(* Properties of the error paths.                                          *)
(***************************************************************************)
\* no "not found" is ever remembered: an entry of playerByIdOrNickname is a
\* row of the player the identifier names, and an answer taken from the
\* cache is a 200
C11_State ==
    /\ \A k \in Identifiers :
          memoryCache.playerByIdOrNickname[k] # Absent =>
              LET row == memoryCache.playerByIdOrNickname[k][1]
              IN  row.id = k \/ row.nickname = k
    /\ (sent.route = "/players/:identifier" /\ sent.hit) => sent.status = 200

\* the step that answers 404 has queried the store, found no row, and has
\* left the cache as it was
C11_Step ==
    (sent'.route = "/players/:identifier" /\ sent'.status = 404) =>
        /\ \E h \in Handlers : handler[h].pc = "execute" /\ handler'[h].pc = "idle"
        /\ Query("/players/:identifier", sent'.key) = <<>>
        /\ sent'.body = [error |-> "Jugador no encontrado"]
        /\ ~sent'.hit
        /\ memoryCache' = memoryCache

\* a request for an identifier that has no entry is not answered from
\* memory, and it is answered 404 exactly when the store has no row for it
C11_Requery ==
    \A h \in Handlers, k \in Identifiers :
        /\ (/\ handler[h].pc = "idle"
            /\ handler'[h].pc = "execute"
            /\ handler'[h].route = "/players/:identifier"
            /\ handler'[h].key = k) =>
                memoryCache.playerByIdOrNickname[k] = Absent
        /\ (/\ handler[h].pc = "execute"
            /\ handler[h].route = "/players/:identifier"
            /\ handler[h].key = k
            /\ handler'[h].pc = "idle"
            /\ Query("/players/:identifier", k) # <<>>) =>
                /\ sent'.status \in {200, 500}
                /\ sent'.status = 200 =>
                      sent'.body = [row |-> Query("/players/:identifier", k)[1]]

\* C11: GET /players/:identifier that finds no row answers 404 "Jugador no
\* encontrado" and stores nothing: the cache is unchanged, no "not found" is
\* kept under the identifier, and a later request for it queries the store
\* again and finds a player added since.
C11_NotFoundIsNotCached ==
    []C11_State /\ [][C11_Step /\ C11_Requery]_vars

\* 404 for "jankos" while other entries are cached, and nothing under "jankos"
C11_Witness ==
    /\ sent.route = "/players/:identifier"
    /\ sent.key = "jankos"
    /\ sent.status = 404
    /\ memoryCache.playerByIdOrNickname["jankos"] = Absent
    /\ memoryCache.playerByIdOrNickname["caps"] # Absent
    /\ memoryCache.players # Absent

\* the Authorization header carries the configured key as a bearer token
HasToken(auth) ==
    /\ API_KEY # Absent
    /\ API_KEY # Some("")
    /\ auth = <<"Bearer", " ", API_KEY[1]>>

\* the step answers 401 and runs nothing of a handler
Refused ==
    /\ sent'.status = 401
    /\ sent'.body = [error |-> "Unauthorized"]
    /\ UNCHANGED <<memoryCache, handler, sync, matches_upcoming, upcoming,
                   orphaned>>

\* C12: a request without the configured bearer token to a route behind
\* requireApiKey is answered 401 "Unauthorized" and nothing of the handler
\* runs: no cache field changes, no query is issued, no browser is launched,
\* whatever the header and whatever API_KEY is set to.
C12_UnauthorizedRunsNothing ==
    [][\A auth \in Authorizations :
          ~HasToken(auth) =>
             /\ \A route \in Routes : \A key \in Params(route) :
                   (Protected(route) /\ ApiGet(1, route, key, auth)) => Refused
             /\ (Protected("/cache/clear") /\ ApiClear(auth)) => Refused
             /\ (Protected("/ranking") /\ ApiRanking(1, auth)) => Refused]_vars

\* C13: in the second revision of server.js a request without the
\* configured bearer token to POST /matches/sync or POST /matches/sync-dpm
\* is answered 401, launches no browser and leaves matches_upcoming as it
\* is.  Stated for a configured key; a key that is unset or empty is the
\* case of C12.
C13_SyncRequiresToken ==
    [][\A auth \in Authorizations, e \in Endpoints :
          (/\ API_KEY = Some("secret")
           /\ ~HasToken(auth)
           /\ ApiSync(1, e, auth)) => Refused]_vars

\* C14: when no request is in flight, no browser session is open: every
\* session a ranking scrape or a sync launched has been closed, on the
\* success path and on every failure path.
C14_BrowsersClosed ==
    (/\ \A h \in Handlers : handler[h].pc = "idle"
     /\ \A p \in SyncSlots : sync[p].pc = "idle") =>
        /\ ~orphaned
        /\ \A p \in SyncSlots : sync[p].browser = "none"

\* request h ends in this step because its store query, its scrape or its
\* fetch of the listing has failed
Failed(h) ==
    \/ \E err \in StoreErrors : DbReject(h, err)
    \/ \E step \in RankingSteps \cup {"close"} : RankingFail(h, step)
    \/ CalendarFail(h)
    \/ \E answer \in ProductionAnswers : ~answer.ok /\ CalendarFetched(h, answer)

\* the fixed messages of the catch blocks
GenericErrors ==
    {[error |-> "Error interno del servidor"],
     [error |-> "Error interno al generar archivo ICS"]}

\* C15: every store or fetch failure is answered 500 with a fixed generic
\* message; the body never carries text of the underlying error, in any
\* handler of any revision.
C15_GenericErrors ==
    [][\A h \in Handlers :
          Failed(h) => sent'.status = 500 /\ sent'.body \in GenericErrors]_vars

\* the step completes a computation: it answers 200 with a value that did
\* not come from the cache, and the only cache fields it changes are those
\* of the entry it stores that value in
Computed ==
    /\ sent'.status = 200
    /\ ~sent'.hit
    /\ \/ /\ sent'.route = "/ranking"
          /\ memoryCache'.ranking = Some(sent'.body.rows)
          /\ memoryCache'.rankingTimestamp # Absent
          /\ memoryCache' = [memoryCache EXCEPT
                                !.ranking = memoryCache'.ranking,
                                !.rankingTimestamp = memoryCache'.rankingTimestamp]
       \/ /\ sent'.route = "/players/year/:year"
          /\ memoryCache' = [memoryCache EXCEPT
                                !.playersByYear[sent'.key] = Some(sent'.body.rows)]

\* C16: a cache entry is created or overwritten only by a successful
\* computation.  When a store query or a ranking scrape fails, the handler
\* answers 500 with an error body and no cache field changes; a failed
\* ranking refresh leaves the stale ranking and rankingTimestamp in place
\* and does not serve the stale value.
C16_OnlySuccessStores ==
    [][/\ memoryCache' # memoryCache => Computed
       /\ \A h \in Handlers :
             (\/ \E err \in StoreErrors : DbReject(h, err)
              \/ \E step \in RankingSteps \cup {"close"} : RankingFail(h, step)) =>
                 /\ sent'.status = 500
                 /\ sent'.body \in GenericErrors
                 /\ memoryCache' = memoryCache]_vars

\* a ranking refresh has just failed: 500, and the stale entry is still
\* there
C16_Witness ==
    /\ sent.route = "/ranking"
    /\ sent.status = 500
    /\ memoryCache.ranking # Absent
    /\ memoryCache.rankingTimestamp # Absent
    /\ Ms(now - memoryCache.rankingTimestamp[1]) >= CACHE_DURATION
    /\ memoryCache.playersByYear["2020"] # Absent

\* C17: in every state a handler can observe, a timestamped entry is
\* whole: ranking and rankingTimestamp are both null or both set, and
\* matches and matchesTimestamp are both null or both set.
C17_WholeEntries ==
    /\ (memoryCache.ranking = Absent) <=> (memoryCache.rankingTimestamp = Absent)
    /\ (memoryCache.matches = Absent) <=> (memoryCache.matchesTimestamp = Absent)

\* a refresh has overwritten the ranking while the matches list is cached
\* and another request is in flight
C17_Witness ==
    /\ sent.route = "/ranking" /\ sent.status = 200 /\ ~sent.hit
    /\ memoryCache.rankingTimestamp = Some(now)
    /\ ticks > 0
    /\ memoryCache.matches # Absent
    /\ \E h \in Handlers : handler[h].pc # "idle"

(***************************************************************************)
(* Properties of the calendar and the listing.                             *)
(***************************************************************************)
HasId(rows, id) == \E k \in 1 .. Len(rows) : rows[k].id = id

\* this step answers a GET /calendar/:id from its lookup: of the steps that
\* leave the sync request, the listing's response and the page alone, only
\* the calendar's send a response of that route
Looked ==
    /\ UNCHANGED <<sync, upcoming, liquipedia>>
    /\ sent'.route = "/calendar/:id"
    /\ sent'.status \in {200, 400, 404}

\* C18: once a sync has replaced the table and answered 200, the next
\* GET /matches/upcoming returns the table's rows, and a GET /calendar/{id}
\* answers 404 exactly for the ids that are not in the table, whether or
\* not the calendar had been served before the sync.
C18_ReadersSeeTheSync ==
    [][lastRun # Absent =>
          /\ GetUpcoming => upcoming'.rows = matches_upcoming
          /\ Looked => (sent'.status = 404 <=> ~HasId(matches_upcoming, sent'.key))]_vars

\* C19: no step of a sync request and no GET /matches/upcoming changes a
\* field of memoryCache, and the listing answers with the rows of the
\* table, whatever listing the calendar holds in memory.
C19_ListingBypassesCache ==
    [][/\ (sync' # sync \/ upcoming' # upcoming) => memoryCache' = memoryCache
       /\ GetUpcoming => upcoming'.rows = matches_upcoming]_vars

\* a sync and a listing have run while the calendar held another listing
C19_Witness ==
    /\ lastRun # Absent
    /\ memoryCache.matches # Absent
    /\ memoryCache.matches[1].array
    /\ memoryCache.matches[1].items # <<>>
    /\ memoryCache.matches[1].items # matches_upcoming
    /\ upcoming.status = 200
    /\ upcoming.rows = matches_upcoming
    /\ upcoming.rows # <<>>

\* the listing the lookup of this step runs on: the one in memory, or the
\* one the fetch has just brought
Collection ==
    IF memoryCache.matches # Absent THEN memoryCache.matches[1]
    ELSE Upstream(TRUE).data

\* C20: a calendar lookup on a listing answers 404 "Partido no encontrado"
\* exactly when no record has the id, even if no record has a usable date;
\* 400 "Fecha inválida" exactly when the first record with the id has no
\* date or one that does not parse; neither carries a calendar, and the
\* lookup leaves the cache as the fetch before it, if any, has left it.
C20_FailedLookups ==
    [][(Looked /\ Collection.array) =>
             LET id    == sent'.key
                 rows  == Collection.items
                 k     == CHOOSE k \in 1 .. Len(rows) :
                             rows[k].id = id /\ ~HasId(SubSeq(rows, 1, k - 1), id)
             IN  /\ ~HasId(rows, id) <=> sent'.status = 404
                 /\ sent'.status = 404 =>
                       sent'.body = [error |-> "Partido no encontrado"]
                 /\ (HasId(rows, id) /\ start(rows[k].date) = Absent)
                       <=> sent'.status = 400
                 /\ sent'.status = 400 => sent'.body = [error |-> "Fecha inválida"]
                 /\ sent'.status # 200 =>
                       memoryCache' = [memoryCache EXCEPT
                           !.matches = Some(Collection),
                           !.matchesTimestamp =
                               IF memoryCache.matches # Absent THEN @ ELSE Some(now)]
      ]_vars

\* a 400 for a record whose date has a zone the parser does not know, after
\* which the listing is still the one in memory
C20_Witness ==
    /\ sent.route = "/calendar/:id"
    /\ sent.key = "G2-FNC-June_20,_2025_-_18:00_CEST"
    /\ sent.status = 400
    /\ memoryCache.matches # Absent
    /\ HasId(memoryCache.matches[1].items, sent.key)

\* C21: a response of GET /calendar/:id has status 200, 404, 400 or 500,
\* also when the listing could not be loaded or was refused upstream.
C21_CalendarStatuses ==
    sent.route = "/calendar/:id" => sent.status \in {200, 404, 400, 500}

(***************************************************************************)
(* Properties of the store's tables.                                       *)
(***************************************************************************)
\* C22: whatever requests the API has served, in any revision, the tables
\* players and years hold the rows they held when the server started, and
\* matches_upcoming changes only in a step of a sync request.
C22_ApiNeverWritesPlayers ==
    /\ [](db = DbA)
    /\ [][matches_upcoming' # matches_upcoming => sync' # sync]_vars

(***************************************************************************)
(* Properties of the ranking.                                              *)
(***************************************************************************)
\* rows is page in descending lp, the rows of one lp in the order of page
Ordered(page, rows) ==
    /\ Len(rows) = Len(page)
    /\ \A i, j \in 1 .. Len(rows) : i < j => rows[i].lp >= rows[j].lp
    /\ \A v \in {page[i].lp : i \in 1 .. Len(page)} :
          SelectSeq(rows, LAMBDA r : r.lp = v) = SelectSeq(page, LAMBDA r : r.lp = v)

C23_Step ==
    /\ (sent'.route = "/ranking" /\ sent'.status = 200 /\ ~sent'.hit) =>
          /\ handler[1].pc = "close"
          /\ Ordered(handler[1].result[1], sent'.body.rows)
          /\ memoryCache'.ranking = Some(sent'.body.rows)
    /\ (sent'.route = "/ranking" /\ sent'.hit) =>
          /\ sent'.status = 200
          /\ \E page \in LeaderboardPages : Ordered(page, sent'.body.rows)
    /\ (handler[1].pc = "idle" /\ handler'[1].pc = "scrape") =>
          ~(C9_Fresh /\ memoryCache.ranking = Some(<<>>))

\* C23: the rows of a 200 of GET /ranking, scraped now or served from the
\* cache, are the scraped rows in descending lp with equal lp in page
\* order; an empty scrape is answered 200 with no rows, stored, and while
\* fresh it is served from the cache without another scrape.
C23_RankingOrdered ==
    /\ [](memoryCache.ranking # Absent =>
            \E page \in LeaderboardPages : Ordered(page, memoryCache.ranking[1]))
    /\ [][C23_Step]_vars

\* a page with two players of equal lp below the first place was scraped,
\* sorted and then served from the cache
C23_Witness ==
    /\ sent.route = "/ranking" /\ sent.status = 200 /\ sent.hit
    /\ opgg = OpggB
    /\ Ordered(OpggB, sent.body.rows)
    /\ sent.body.rows # OpggB

\* an empty ranking is served from the cache
C23_EmptyServed ==
    /\ sent.route = "/ranking" /\ sent.status = 200 /\ sent.hit
    /\ sent.body.rows = <<>>

(***************************************************************************)
(* Properties of overlapping requests.                                     *)
(***************************************************************************)
\* handler h ends in this step
Ends(h, pc) == handler[h].pc = pc /\ handler'[h].pc = "idle"

C24_Step ==
    /\ \A h \in Handlers :
          /\ Ends(h, "close") =>
                memoryCache' = [memoryCache EXCEPT
                    !.ranking = Some(SortByLp(handler[h].result[1])),
                    !.rankingTimestamp = Some(handler[h].now)]
          /\ Ends(h, "resume") =>
                memoryCache' = [memoryCache EXCEPT
                    !.playersByYear[handler[h].key] = Some(handler[h].result[1])]
    /\ memoryCache' # memoryCache =>
          \/ sent'.route = "/cache/clear"
          \/ \E h \in Handlers : Ends(h, "close") \/ Ends(h, "resume")

\* C24: when handlers that missed the same key store one after the other,
\* each store sets the key's entry to the storing handler's own result (for
\* the ranking, with that handler's own timestamp) and changes no other
\* entry, and nothing else but a clear changes the cache: the entry is
\* always the last writer's.
C24_LastWriteWins == [][C24_Step]_vars

\* two requests missed the ranking together; one has stored its result and
\* the other is about to store a different one over it, with the by-year
\* entry of another key in the cache
C24_Witness ==
    \E h \in Handlers :
        /\ handler[h].pc = "close"
        /\ memoryCache.ranking # Absent
        /\ memoryCache.rankingTimestamp # Absent
        /\ Ms(handler[h].now - memoryCache.rankingTimestamp[1]) < CACHE_DURATION
        /\ memoryCache.ranking[1] # SortByLp(handler[h].result[1])
        /\ memoryCache.playersByYear["2020"] # Absent

(***************************************************************************)
(* The course of a sync request.  Idle is pc idle; Fetching is pc fetch    *)
(* (a rejected launch passes through it without a step of its own);        *)
(* Persisting is pc delete and insert; the response is sent on entering    *)
(* pc finally: Failed with 500, or the success that goes back to Idle.     *)
(***************************************************************************)
C25_Step ==
    \A p \in SyncSlots :
        sync'[p].pc # sync[p].pc =>
            /\ <<sync[p].pc, sync'[p].pc>> \in
                  {<<"idle", "fetch">>, <<"idle", "finally">>,
                   <<"fetch", "delete">>, <<"fetch", "finally">>,
                   <<"delete", "insert">>, <<"delete", "finally">>,
                   <<"insert", "finally">>, <<"finally", "idle">>}
            /\ sync'[p].pc \in {"delete", "insert"} => sync'[p].fetched
            /\ sync'[p].pc = "finally" =>
                  /\ sync[p].res = Absent
                  /\ sync'[p].res \in {Error500, Ok(Len(sync[p].matches))}
                  /\ sync'[p].res # Error500 =>
                        /\ sync[p].pc = "insert"
                        /\ sync[p].i = Len(sync[p].matches)
                  /\ sync[p].pc \in {"idle", "fetch"} => ~sync'[p].deleted

\* C25: a sync request goes Idle, Fetching, Persisting, Idle, or fails out
\* of Fetching or out of Persisting and then goes back to Idle; Persisting
\* is entered only with a completed fetch; and when every call returns or
\* fails, a request in Fetching or Persisting comes to send its response
\* (ok with the count, or 500) and every request in flight comes to end.
C25_SyncEnds ==
    /\ [][C25_Step]_vars
    /\ \A p \in SyncSlots :
          /\ (sync[p].pc \in {"fetch", "delete", "insert"}) ~> (sync[p].res # Absent)
          /\ InFlight(p) ~> ~InFlight(p)

\* a request has failed out of Persisting, after its fetch and its DELETE,
\* while the other request is still fetching
C25_Witness ==
    /\ sync[1].pc = "finally"
    /\ sync[1].res = Error500
    /\ sync[1].fetched /\ sync[1].deleted
    /\ sync[1].i > 0
    /\ sync[2].pc = "fetch"

\* C26: once POST /cache/clear has answered, a request that starts later is
\* not answered from an entry holding what the store gave before the clear,
\* also when the request that stored the entry was waiting for the store's
\* answer while the cache was cleared.
C26_NothingFromBeforeTheClear ==
    [][(sent'.hit /\ sent'.route \in Routes) =>
          <<sent'.route, sent'.key>> \notin preClear.keys]_vars

\* C27: memoryCache.matches is null or an array of match records in every
\* state: a listing that was refused or is no array is never stored.
C27_MatchesIsArray ==
    memoryCache.matches # Absent => memoryCache.matches[1].array

\* C28: from one clear to the next rankingTimestamp never decreases: a
\* stored ranking is never replaced by one with an earlier timestamp, also
\* when two GET /ranking requests that missed overlap.
C28_TimestampNeverDecreases ==
    [][(memoryCache.rankingTimestamp # Absent
          /\ memoryCache'.rankingTimestamp # Absent) =>
             memoryCache'.rankingTimestamp[1] >= memoryCache.rankingTimestamp[1]]_vars

(***************************************************************************)
(* Properties of the ids.                                                  *)
(***************************************************************************)
\* C29: the matches a sync has fetched that differ in a team, the date or
\* the best-of have different ids, and when the sync has answered ok the
\* table holds as many distinct ids as rows, the count it reported.
C29_DistinctIds ==
    /\ \A p \in SyncSlots :
          sync[p].fetched =>
             \A i, j \in 1 .. Len(sync[p].matches) :
                sync[p].matches[i] # sync[p].matches[j] =>
                   sync[p].matches[i].id # sync[p].matches[j].id
    /\ lastRun # Absent =>
          Cardinality({matches_upcoming[k].id : k \in 1 .. Len(matches_upcoming)})
             = Len(matches_upcoming)

(***************************************************************************)
(* Properties of the responses.                                            *)
(***************************************************************************)
C30_Step ==
    /\ \A p \in SyncSlots :
          /\ sync'[p].res # Absent => sync'[p].pc = "finally"
          /\ (sync[p].res # Absent /\ InFlight(p)') => sync'[p].res = sync[p].res
          /\ (InFlight(p) /\ ~InFlight(p)') => sync[p].res # Absent
    /\ \A h \in Handlers :
          /\ (handler'[h] # handler[h] /\ handler'[h].pc # "idle") =>
                sent' = NoResponse
          /\ (handler[h].pc # "idle" /\ handler'[h].pc = "idle") =>
                /\ sent'.status # 0
                /\ sent'.route = handler[h].route
                /\ sent'.key = handler[h].key
    /\ sent'.hit => /\ sent'.status # 0
                    /\ handler' = handler

\* C30: a request is sent one response and nothing after it.  A sync
\* request gets its response on entering the finally block and ends with
\* that response, also when browser.close() then fails; a cached request
\* gets its response in the step in which it ends (the hit, the 404 or
\* 400, the success, the caught failure) and in no step before.
C30_OneResponse == [][C30_Step]_vars

\* a sync has answered ok and its browser.close() has then failed
C30_Witness ==
    /\ sync[1].pc = "idle"
    /\ sync[1].err = "close"
    /\ lastRun # Absent
    /\ matches_upcoming # <<>>

====
